---- MODULE Spec2Model ----
(***************************************************************************)
(* Model of pypiper's PipelineManager (src/pypiper/manager.py): the        *)
(* run-and-lock execution engine, the status flag store, the child         *)
(* supervisor and the failure / signal / atexit paths, for several         *)
(* manager processes that share one output folder.                         *)
(*                                                                         *)
(* Each manager process has a program counter pc[m].  A step is one        *)
(* file-system call (or a run of purely local statements), so that other   *)
(* managers and signals interleave wherever they can in the program.       *)
(***************************************************************************)
EXTENDS Integers, Sequences, FiniteSets, TLC

\* ---------------------------------------------------------------- bounds
MaxOps == 2          \* calls a script makes, where one pipeline runs alone
MaxRuns == 1         \* calls each process makes, where pipelines run together
MaxRestarts == 1
MaxSignals == 1
MaxCmds == 1
MaxPath == 6          \* separators and names in a checkpoint path
MaxNaps == 26         \* passes of a sleeping loop
MaxClean == 2         \* patterns in the cleanup lists of a pipeline
MaxMem == 2           \* gigabytes the children of a pipeline use together

Mgr == {1, 2}

\* ------------------------------------------------------- program constants
RUN_FLAG == "running"
WAIT_FLAG == "waiting"
PAUSE_FLAG == "paused"
COMPLETE_FLAG == "completed"
FAIL_FLAG == "failed"
INITIALIZING == "initializing"

\* make_lock_name + _make_lock_path of the target t and of the stats file
LOCK_T == "lock.t"
LOCK_S == "lock.stats.tsv"

\* exit codes a child can end with: success, failure, killed by a signal
RetCodes == {0, 1, -9}
SIGTERM_CODE == -15

VARIABLES
    lockFiles,      \* lock files that exist in the output folder
    recoverFiles,   \* lock paths whose recover.lock.* file exists
    targetExists,   \* the target file t exists
    ckFiles,        \* checkpoint files that exist
    flags,          \* flags[m]: status flag files of pipeline m on disk
    pc,             \* pc[m]: position of process m in the program
    status,         \* status[m]: PipelineManager.status
    locks,          \* locks[m]: PipelineManager.locks (a list)
    procs,          \* procs[m]: keys of PipelineManager.procs
    kids,           \* kids[m]: the children process m has spawned
    cfg,            \* cfg[m]: constructor settings of manager m
    loc,            \* loc[m]: arguments and locals of the call in progress
    res,            \* res[m]: what the current / last call did and returned
    nops,           \* nops[m]: calls the script of process m has made
    nsig,           \* signals delivered so far
    inst,           \* processes started again so far
    peak_memory,    \* peak_memory[m]: PipelineManager.peak_memory
    sampled,        \* sampled[m]: the largest memory sample m has taken
    nap,            \* nap[m]: the sleeping loop m is in and its sleeptime
    statsFile,      \* the rows of the stats file of the output folder
    stats_dict,     \* stats_dict[m]: PipelineManager.stats_dict
    cleanup_list,   \* cleanup_list[m]: PipelineManager.cleanup_list
    cleanup_list_conditional,   \* likewise, the conditional list
    interFiles,     \* intermediate files that exist
    clog,           \* clog[m]: what the cleanups of m have moved, deleted and
                    \* written to the cleanup script
    ident           \* ident[m]: PipelineManager.name and .outfolder, and the
                    \* name and outfolder arguments it was constructed with

vars == <<lockFiles, recoverFiles, targetExists, ckFiles, flags, pc, status,
          locks, procs, kids, cfg, loc, res, nops, nsig, inst,
          peak_memory, sampled, nap, statsFile, stats_dict,
          cleanup_list, cleanup_list_conditional, interFiles, clog,
          ident>>

memvars == <<peak_memory, sampled>>

\* the state of the parts that are modelled on their own
statvars == <<statsFile, stats_dict>>

cleanvars == <<cleanup_list, cleanup_list_conditional, interFiles, clog>>

sidevars == <<nap, statvars, cleanvars>>

\* every variable but those of sidevars
mainvars == <<lockFiles, recoverFiles, targetExists, ckFiles, flags, pc,
              status, locks, procs, kids, cfg, loc, res, nops, nsig, inst,
              peak_memory, sampled, ident>>

fsvars == <<lockFiles, recoverFiles, targetExists, ckFiles, flags>>

Max(a, b) == IF a >= b THEN a ELSE b

\* list.remove(x): drop the first occurrence of x
RECURSIVE list_remove(_, _)
list_remove(s, x) ==
    IF s = <<>> THEN <<>>
    ELSE IF Head(s) = x THEN Tail(s)
    ELSE <<Head(s)>> \o list_remove(Tail(s), x)

InList(s, x) == \E i \in 1..Len(s) : s[i] = x

\* ------------------------------------------------------------ call frames
NoCall == [op |-> "none", target |-> FALSE, nofail |-> FALSE, ncmd |-> 0,
           i |-> 0, rc |-> 0, recover_mode |-> FALSE, lock |-> "none",
           first |-> FALSE, ssfArg |-> "none", ssfRet |-> "none",
           wflRet |-> "none", swRet |-> "none", kid |-> 0,
           shell |-> TRUE, maxmem |-> -1]

\* the record of a call: its arguments, what held when it was made (pre*),
\* what it did and how it ended
NoRes == [op |-> "none", state |-> "none", ret |-> 0, target |-> FALSE,
          valid |-> FALSE, preTarget |-> FALSE, preLock |-> FALSE,
          preRecover |-> FALSE, preSkip |-> FALSE,
          spawned |-> 0, followed |-> 0, created |-> 0, waited |-> FALSE,
          path |-> "none", prevOk |-> FALSE, prevNz |-> FALSE,
          preOw |-> FALSE, ckWrote |-> FALSE, ckFile |-> "none",
          ckArg |-> <<>>, stat |-> "none"]

\* constructor settings: recover -> overwrite_locks, force_follow,
\* overwrite_checkpoints, and the wait attribute
Configs == [overwrite_locks : BOOLEAN, force_follow : BOOLEAN,
            overwrite_checkpoints : BOOLEAN, wait : BOOLEAN]

DefaultConfig == [overwrite_locks |-> FALSE, force_follow |-> FALSE,
                  overwrite_checkpoints |-> FALSE, wait |-> TRUE]

\* has_exit_status
has_exit_status(st) == st \in {COMPLETE_FLAG, PAUSE_FLAG, FAIL_FLAG}

\* ------------------------------------------------- failure path, as values
\* The part of the state one manager's failure path reads and writes.
Snap(m) == [status |-> status[m], flags |-> flags[m], locks |-> locks[m],
            procs |-> procs[m], kids |-> kids[m], rec |-> recoverFiles,
            peak |-> peak_memory[m], sampled |-> sampled[m],
            cl |-> cleanup_list[m], clc |-> cleanup_list_conditional[m],
            files |-> interFiles, clog |-> clog[m],
            sibflags |-> UNION {flags[o] : o \in Mgr \ {m}},
            err |-> "none"]

\* ---- _cleanup
\* the patterns given to clean_add, and the intermediate files
P_ONE == "a1"
P_ALL == "a*"
Patterns == {P_ONE, P_ALL}
InterFiles == {"a1", "a2"}

\* glob.glob(expr)
glob(expr, files) == IF expr = P_ALL THEN files ELSE files \cap {expr}

\* the files the patterns of a list match
glob_all(list, files) ==
    UNION {glob(list[i], files) : i \in 1..Len(list)}

\* nothing moved by a dry run, nothing deleted, no line in the cleanup
\* script
NoClog == [moved |-> 0, gone |-> {}, script |-> {}]

\* the local name `file` of _cleanup before any loop has assigned it
UNBOUND == "unbound"

\* the local `file` after the loops of lines 1623-1642 over the list cl: the
\* last file they deleted, if any
loop_file(cl, files) ==
    IF glob_all(cl, files) = {} THEN UNBOUND
    ELSE CHOOSE f \in glob_all(cl, files) : TRUE

\* the else branch of lines 1666-1681: for every item the conditional list
\* matches, open the script and write `rm item` if os.path.isfile(file);
\* with `file` unbound the test raises and the pattern is skipped
write_cleanup_script(s, file) ==
    IF file = UNBOUND \/ file \notin s.files THEN s
    ELSE [s EXCEPT !.clog.script =
                     @ \cup {<<"rm", i>> : i \in glob_all(s.clc, s.files)}]

\* a test that never finds a flag file
other_flags_Never(s) == FALSE

\* flag_files of lines 1645-1648 is not empty: the output folder holds a
\* flag file that is neither a completed flag nor this pipeline's running
\* flag
other_flags(s) ==
    \/ \E f \in s.sibflags : f # COMPLETE_FLAG
    \/ \E f \in s.flags : f \notin {COMPLETE_FLAG, RUN_FLAG}

\* if dry_run: move the unconditional list behind the conditional one
\* (lines 1616-1621)
cleanup_fold(s) ==
    IF s.cl # <<>>
    THEN [s EXCEPT !.clc = @ \o s.cl, !.cl = <<>>,
                   !.clog.moved = @ + Len(s.cl)]
    ELSE s

\* delete what the unconditional list matches (lines 1623-1642)
cleanup_unconditional(s) ==
    [s EXCEPT !.files = @ \ glob_all(s.cl, s.files),
              !.clog.gone = @ \cup glob_all(s.cl, s.files)]

\* delete what the conditional list matches unless another flag file is
\* found or the run is dry (lines 1644-1681)
cleanup_conditional(s, dry_run, file) ==
    IF s.clc = <<>> THEN s
    ELSE IF ~other_flags(s) /\ ~dry_run
    THEN [s EXCEPT !.files = @ \ glob_all(s.clc, s.files),
                   !.clog.gone = @ \cup glob_all(s.clc, s.files)]
    ELSE write_cleanup_script(s, file)

\* a dry run that does not move the unconditional list
cleanup_NoFold(s, dry_run) ==
    cleanup_conditional(cleanup_unconditional(s), dry_run,
                        loop_file(s.cl, s.files))

\* _cleanup(dry_run)
cleanup(s, dry_run) ==
    LET s0 == IF dry_run THEN cleanup_fold(s) ELSE s
    IN  cleanup_conditional(cleanup_unconditional(s0), dry_run,
                            loop_file(s0.cl, s0.files))

\* _memory_usage(pid): /proc/<pid>/status is gone once the child was reaped
memory_usage_raises(k) == k.st = "reaped"

\* _memory_usage(pid) / 1e6 where it does not raise: the VmHWM line of
\* /proc/<pid>/status, which a child that has ended no longer has
memory_usage(k) == IF k.st = "run" THEN k.hwm ELSE 0

\* the largest of n and the memory samples of the children ps
RECURSIVE max_sample(_, _, _)
max_sample(n, ks, ps) ==
    IF ps = {} THEN n
    ELSE LET k == CHOOSE j \in ps : TRUE
         IN  max_sample(Max(n, memory_usage(ks[k])), ks, ps \ {k})

\* _terminate_running_subprocesses: for every registered child sample its
\* memory, report its profile, send it SIGTERM and unregister it.
terminate_running_subprocesses(s) ==
    IF \E k \in s.procs : memory_usage_raises(s.kids[k])
    THEN [s EXCEPT !.err = "IOError"]
    ELSE [s EXCEPT !.kids = [k \in DOMAIN s.kids |->
                               IF k \in s.procs
                               THEN [s.kids[k] EXCEPT !.term = TRUE]
                               ELSE s.kids[k]],
                   !.sampled = max_sample(@, s.kids, s.procs),
                   !.procs = {}]

\* a dynamic_recover loop that writes nothing
write_recover_files_Skip(s, todo) == s

\* the dynamic_recover loop of fail_pipeline over a copy of self.locks
RECURSIVE write_recover_files(_, _)
write_recover_files(s, todo) ==
    IF todo = <<>> THEN s
    ELSE IF Head(todo) \in s.rec
         THEN [s EXCEPT !.err = "OSError"]
         ELSE write_recover_files(
                 [s EXCEPT !.rec = @ \cup {Head(todo)},
                           !.locks = list_remove(@, Head(todo))],
                 Tail(todo))

\* set_status_flag run to completion (inside the failure path)
set_status_flag_done(s, new) ==
    [s EXCEPT !.flags = (@ \ {s.status}) \cup {new}, !.status = new]

\* fail_pipeline(e, dynamic_recover); err = "e" is the final `raise e`
fail_pipeline(s, dynamic_recover) ==
    LET s1 == terminate_running_subprocesses(s)
        s2 == IF dynamic_recover THEN write_recover_files(s1, s1.locks)
              ELSE s1
        sc == cleanup(s2, TRUE)
        s3 == IF sc.status # FAIL_FLAG
              THEN set_status_flag_done(sc, FAIL_FLAG) ELSE sc
    IN  IF s1.err # "none" THEN s1
        ELSE IF s2.err # "none" THEN s2
        ELSE [s3 EXCEPT !.err = "e"]

\* _exit_handler (atexit)
exit_handler(s) ==
    IF has_exit_status(s.status) THEN s
    ELSE fail_pipeline([s EXCEPT !.err = "none"], FALSE)

\* a child just started by subprocess.Popen
NewKid == [st |-> "run", rc |-> 0, term |-> FALSE, hwm |-> 0]

\* a child that ended and is not registered in procs; its exit code is
\* history
GoneKid == [st |-> "reaped", rc |-> 0, term |-> FALSE, hwm |-> 0]

\* the children that still matter: one that ended, is not in procs and is
\* not the one callprint waits for (keep) is history, and history at the
\* end of the list is forgotten
forget_gone(ks, ps, keep) ==
    LET old(k) == ks[k].st # "run" /\ k \notin ps /\ k # keep
        live == {k \in 1..Len(ks) : ~old(k)}
        n == IF live = {} THEN 0
             ELSE CHOOSE k \in live : \A j \in live : j <= k
    IN  [k \in 1..n |-> IF old(k) THEN GoneKid ELSE ks[k]]

\* write a snapshot back
Commit(m, s) ==
    /\ status' = [status EXCEPT ![m] = s.status]
    /\ flags' = [flags EXCEPT ![m] = s.flags]
    /\ locks' = [locks EXCEPT ![m] = s.locks]
    /\ procs' = [procs EXCEPT ![m] = s.procs]
    /\ kids' = [kids EXCEPT ![m] = forget_gone(s.kids, s.procs, loc[m].kid)]
    /\ recoverFiles' = s.rec
    /\ peak_memory' = [peak_memory EXCEPT ![m] = s.peak]
    /\ sampled' = [sampled EXCEPT ![m] = s.sampled]
    /\ cleanup_list' = [cleanup_list EXCEPT ![m] = s.cl]
    /\ cleanup_list_conditional' =
           [cleanup_list_conditional EXCEPT ![m] = s.clc]
    /\ interFiles' = s.files
    /\ clog' = [clog EXCEPT ![m] = s.clog]
    /\ UNCHANGED <<nap, statvars>>

\* an exception leaves the script uncaught: the interpreter runs the atexit
\* handler and the process ends
Die(m, s) ==
    /\ Commit(m, exit_handler(s))
    /\ pc' = [pc EXCEPT ![m] = "exited"]
    /\ loc' = [loc EXCEPT ![m] = NoCall]
    /\ res' = [res EXCEPT ![m] = NoRes]

\* a call returns value v to the script; r is the record of the call
Return(m, v, r) ==
    /\ pc' = [pc EXCEPT ![m] = "returned"]
    /\ loc' = [loc EXCEPT ![m] = NoCall]
    /\ res' = [res EXCEPT ![m] = [r EXCEPT !.state = "returned", !.ret = v]]

Goto(m, p) == pc' = [pc EXCEPT ![m] = p]

\* the script goes on after a call returned; all it keeps of the call is
\* whether it was a run with a target that executed and returned 0, and
\* whether it was a run that executed and returned a nonzero code
Resume(m) ==
    /\ pc[m] = "returned"
    /\ Goto(m, "idle")
    /\ res' = [res EXCEPT ![m] =
                 [NoRes EXCEPT !.prevOk = /\ res[m].op = "run"
                                          /\ res[m].target
                                          /\ res[m].path = "exec"
                                          /\ res[m].ret = 0,
                               !.prevNz = /\ res[m].op = "run"
                                          /\ res[m].path = "exec"
                                          /\ res[m].ret # 0]]
    /\ UNCHANGED <<fsvars, status, locks, procs, memvars, sidevars, kids, cfg, ident, loc, nops, nsig, inst>>

\* -------------------------------------------------------------------- run
\* arguments of a run call.  ck: no checkpoint, checkpoint=<name> or
\* checkpoint_filename=<file>; ncmd = 0 is a single command string,
\* ncmd = n > 0 a list of n commands.
RunParams == [target : BOOLEAN, lock_name : BOOLEAN, nofail : BOOLEAN,
              ck : {"none", "name", "file"}, owck : BOOLEAN,
              ncmd : 0..MaxCmds, shell : BOOLEAN]

CK_RAW == "raw.checkpoint"
CK_SLUG == "slug.checkpoint"

\* check_names of run (lines 549-555)
check_names(ck) ==
    IF ck = "file" THEN <<CK_RAW>>
    ELSE IF ck = "name" THEN <<CK_RAW, CK_SLUG>>
    ELSE <<>>

\* checkpoint_skip looking at the first candidate file name only
checkpoint_skip_FirstOnly(m, p) ==
    /\ check_names(p.ck) # <<>>
    /\ check_names(p.ck)[1] \in ckFiles
    /\ ~(cfg[m].overwrite_checkpoints \/ p.owck)

\* the checkpoint short-circuit (lines 557-575): TRUE iff run returns 0 there
checkpoint_skip(m, p) ==
    /\ \E j \in 1..Len(check_names(p.ck)) : check_names(p.ck)[j] \in ckFiles
    /\ ~(cfg[m].overwrite_checkpoints \/ p.owck)

\* an argument test that lets every call through
no_names_Never(p) == FALSE

\* if target is None and lock_name is None (line 543)
no_names(p) == ~p.target /\ ~p.lock_name

\* run(...) up to the head of the while loop
RunCall(m, p) ==
    /\ pc[m] = "idle"
    /\ nops[m] < MaxOps
    /\ nops' = [nops EXCEPT ![m] = @ + 1]
    /\ UNCHANGED <<lockFiles, targetExists, ckFiles, cfg, ident, nsig, inst>>
    /\ LET r == [NoRes EXCEPT !.op = "run", !.state = "running",
                              !.target = p.target,
                              !.valid = (p.target \/ p.lock_name),
                              !.preTarget = (p.target /\ targetExists),
                              !.preLock = (LOCK_T \in lockFiles),
                              !.preRecover = (LOCK_T \in recoverFiles),
                              !.preSkip =
                                  /\ \E f \in ckFiles :
                                        InList(check_names(p.ck), f)
                                  /\ ~cfg[m].overwrite_checkpoints
                                  /\ ~p.owck,
                              !.preOw =
                                  /\ \E f \in ckFiles :
                                        InList(check_names(p.ck), f)
                                  /\ p.owck,
                              !.prevOk = res[m].prevOk,
                              !.prevNz = res[m].prevNz]
      IN  IF no_names(p)
          THEN \* fail_pipeline(Exception("You must provide ..."))
               /\ Commit(m, exit_handler(fail_pipeline(Snap(m), FALSE)))
               /\ Goto(m, "exited")
               /\ loc' = [loc EXCEPT ![m] = NoCall]
               /\ res' = [res EXCEPT ![m] = [r EXCEPT !.state = "raised",
                                                      !.path = "argerr"]]
          ELSE IF checkpoint_skip(m, p)
          THEN /\ Return(m, 0, [r EXCEPT !.path = "skip_ck"])
               /\ UNCHANGED <<recoverFiles, flags, status, locks, procs, memvars, sidevars, kids>>
          ELSE /\ Goto(m, "run_t1")
               /\ loc' = [loc EXCEPT ![m] =
                            [NoCall EXCEPT !.op = "run", !.target = p.target,
                                           !.nofail = p.nofail,
                                           !.ncmd = p.ncmd, !.lock = LOCK_T,
                                           !.shell = p.shell]]
               /\ res' = [res EXCEPT ![m] = r]
               /\ UNCHANGED <<recoverFiles, flags, status, locks, procs, memvars, sidevars, kids>>

\* while-loop test, first operand: target is not None and os.path.exists
RunTestTarget(m) ==
    /\ pc[m] = "run_t1"
    /\ Goto(m, IF loc[m].target /\ targetExists THEN "run_t2" ELSE "run_l2")
    /\ UNCHANGED <<fsvars, status, locks, procs, memvars, sidevars, kids, cfg, ident, loc, res, nops, nsig, inst>>

\* RunTestLock without the target-exists skip: the call goes on to the lock
RunTestLock_NoSkip(m) ==
    /\ pc[m] = "run_t2"
    /\ Goto(m, "run_l2")
    /\ UNCHANGED <<fsvars, status, locks, procs, memvars, sidevars, kids, cfg, ident, loc, res, nops,
                   nsig, inst>>

\* RunTestLock calling the follow-up on every skip, forced or not
RunTestLock_FollowAlways(m) ==
    /\ pc[m] = "run_t2"
    /\ IF loc[m].lock \notin lockFiles
       THEN Return(m, loc[m].rc,
                   [res[m] EXCEPT !.path = "skip_target", !.followed = @ + 1])
       ELSE Goto(m, "run_l2") /\ UNCHANGED <<loc, res>>
    /\ UNCHANGED <<fsvars, status, locks, procs, memvars, sidevars, kids, cfg, ident, nops, nsig, inst>>

\* while-loop test, second operand: not os.path.isfile(lock_file); if it
\* holds the call is the target-exists skip (lines 624-630)
RunTestLock(m) ==
    /\ pc[m] = "run_t2"
    /\ IF loc[m].lock \notin lockFiles
       THEN Return(m, loc[m].rc,
                   [res[m] EXCEPT !.path = "skip_target",
                                  !.followed = @ + (IF cfg[m].force_follow
                                                    THEN 1 ELSE 0)])
       ELSE Goto(m, "run_l2") /\ UNCHANGED <<loc, res>>
    /\ UNCHANGED <<fsvars, status, locks, procs, memvars, sidevars, kids, cfg, ident, nops, nsig, inst>>

\* "Scenario 1": os.path.isfile(lock_file), then overwrite_locks (632-635)
RunLockExists(m) ==
    /\ pc[m] = "run_l2"
    /\ Goto(m, IF loc[m].lock \in lockFiles /\ ~cfg[m].overwrite_locks
               THEN "run_r3" ELSE "run_append")
    /\ UNCHANGED <<fsvars, status, locks, procs, memvars, sidevars, kids, cfg, ident, loc, res, nops, nsig, inst>>

\* elif os.path.isfile(recover_file) ... else _wait_for_lock (636-645)
RunRecoverExists(m) ==
    /\ pc[m] = "run_r3"
    /\ IF loc[m].lock \in recoverFiles
       THEN /\ Goto(m, "run_rmrec")
            /\ loc' = [loc EXCEPT ![m].recover_mode = TRUE]
            /\ res' = res
       ELSE /\ Goto(m, "wfl_test")
            /\ loc' = [loc EXCEPT ![m].first = FALSE, ![m].wflRet = "run_t1"]
            /\ res' = [res EXCEPT ![m].waited = TRUE]
    /\ UNCHANGED <<fsvars, status, locks, procs, memvars, sidevars, kids, cfg, ident, nops, nsig, inst>>

\* RunRemoveRecover that goes on to take the lock over when the recovery
\* file is already gone
RunRemoveRecover_IgnoreMissing(m) ==
    /\ pc[m] = "run_rmrec"
    /\ recoverFiles' = recoverFiles \ {loc[m].lock}
    /\ Goto(m, "run_append")
    /\ UNCHANGED <<lockFiles, targetExists, ckFiles, flags, status, locks,
                   procs, memvars, sidevars, kids, cfg, ident, loc, res, nops, nsig, inst>>

\* os.remove(recover_file) (line 641); OSError if it is gone
RunRemoveRecover(m) ==
    /\ pc[m] = "run_rmrec"
    /\ IF loc[m].lock \in recoverFiles
       THEN /\ recoverFiles' = recoverFiles \ {loc[m].lock}
            /\ Goto(m, "run_append")
            /\ UNCHANGED <<flags, status, locks, procs, memvars, sidevars, kids, loc, res>>
       ELSE Die(m, Snap(m))
    /\ UNCHANGED <<lockFiles, targetExists, ckFiles, cfg, ident, nops, nsig, inst>>

\* self.locks.append(lock_file) (line 650)
RunAppendLock(m) ==
    /\ pc[m] = "run_append"
    /\ locks' = [locks EXCEPT ![m] = Append(@, loc[m].lock)]
    /\ Goto(m, "run_create")
    /\ UNCHANGED <<fsvars, status, procs, memvars, sidevars, kids, cfg, ident, loc, res, nops, nsig, inst>>

\* _create_file: open(file, 'w')
create_file(files, f) == files \cup {f}

\* _create_file_racefree: O_CREAT | O_EXCL; errno EEXIST if the file exists
create_file_racefree(files, f) ==
    [eexist |-> f \in files, files |-> files \cup {f}]

\* lines 651-659: create the lock, or loop again after losing the race
RunCreateLock(m) ==
    /\ pc[m] = "run_create"
    /\ IF cfg[m].overwrite_locks \/ loc[m].recover_mode
       THEN /\ lockFiles' = create_file(lockFiles, loc[m].lock)
            /\ Goto(m, "exec_spawn")
            /\ loc' = [loc EXCEPT ![m].i = 1]
            /\ res' = [res EXCEPT ![m].created = @ + 1, ![m].path = "exec"]
       ELSE IF create_file_racefree(lockFiles, loc[m].lock).eexist
       THEN /\ Goto(m, "run_t1")
            /\ UNCHANGED <<lockFiles, loc, res>>
       ELSE /\ lockFiles' = create_file_racefree(lockFiles, loc[m].lock).files
            /\ Goto(m, "exec_spawn")
            /\ loc' = [loc EXCEPT ![m].i = 1]
            /\ res' = [res EXCEPT ![m].created = @ + 1, ![m].path = "exec"]
    /\ UNCHANGED <<recoverFiles, targetExists, ckFiles, flags, status, locks,
                   procs, memvars, sidevars, kids, cfg, ident, nops, nsig, inst>>

\* -------------------------------------------------------------- callprint
\* back in run after callprint returned ret (lines 669-678): the frame and
\* the position that follow
after_callprint(l, ret) ==
    LET newrc == IF l.ncmd = 0 THEN ret ELSE Max(l.rc, ret)
    IN  IF l.ncmd > 0 /\ l.i < l.ncmd
        THEN [l |-> [l EXCEPT !.rc = newrc, !.i = @ + 1, !.kid = 0,
                              !.maxmem = -1],
              pc |-> "exec_spawn"]
        ELSE [l |-> [l EXCEPT !.rc = newrc, !.kid = 0, !.maxmem = -1],
              pc |-> "run_follow"]

\* subprocess.Popen and the registration in procs (lines 802-817)
ExecSpawn(m) ==
    /\ pc[m] = "exec_spawn"
    /\ LET k == Len(kids[m]) + 1
      IN  /\ kids' = [kids EXCEPT ![m] = Append(@, NewKid)]
          /\ procs' = [procs EXCEPT ![m] = @ \cup {k}]
          /\ res' = [res EXCEPT ![m].spawned = @ + 1]
          /\ IF ~cfg[m].wait
             THEN /\ Goto(m, after_callprint(loc[m], 0).pc)
                  /\ loc' = [loc EXCEPT ![m] = after_callprint(loc[m], 0).l]
             ELSE /\ Goto(m, "exec_poll")
                  /\ loc' = [loc EXCEPT ![m].kid = k]
    /\ UNCHANGED <<fsvars, status, locks, cfg, ident, nops, nsig, inst, memvars, sidevars>>

\* a child ends with a code in codes (SIGTERM's if it was terminated): it
\* may have produced the target, whatever its exit code.  A child of a
\* process that is gone is reaped by the operating system.
ChildExit(m, k, codes) ==
    /\ k \in DOMAIN kids[m]
    /\ kids[m][k].st = "run"
    /\ \E code \in (IF kids[m][k].term THEN {SIGTERM_CODE} ELSE codes),
          made \in BOOLEAN :
          /\ kids' = [kids EXCEPT ![m] =
                        IF pc[m] = "dead"
                        THEN SubSeq(@, 1, k - 1) \o SubSeq(@, k + 1, Len(@))
                        ELSE [@ EXCEPT ![k].st = "zombie",
                                       ![k].hwm = 0,
                                       ![k].rc = IF loc[m].kid = k
                                                 THEN code ELSE 0]]
          /\ targetExists' = (targetExists \/ made)
    /\ UNCHANGED <<lockFiles, recoverFiles, ckFiles, flags, pc, status, locks,
                   procs, memvars, sidevars, cfg, ident, loc, res, nops, nsig, inst>>

\* while p.poll() is None: ...  (lines 819-826); poll reaps the child
ExecPoll(m) ==
    /\ pc[m] = "exec_poll"
    /\ kids[m][loc[m].kid].st = "zombie"
    /\ kids' = [kids EXCEPT ![m][loc[m].kid].st = "reaped"]
    /\ Goto(m, "exec_reaped")
    /\ UNCHANGED <<fsvars, status, locks, procs, memvars, sidevars, cfg, ident, loc, res, nops, nsig, inst>>

\* the memory the children of m have used at most, together
RECURSIVE total_hwm(_)
total_hwm(ks) ==
    IF ks = <<>> THEN 0 ELSE ks[1].hwm + total_hwm(Tail(ks))

\* a running child's resident memory reaches a new high-water mark
\* (the VmHWM line of its /proc status file), in whole gigabytes
ChildGrows(m, k) ==
    /\ k \in DOMAIN kids[m]
    /\ kids[m][k].st = "run"
    /\ total_hwm(kids[m]) < MaxMem
    /\ kids' = [kids EXCEPT ![m][k].hwm = @ + 1]
    /\ UNCHANGED <<fsvars, pc, status, locks, procs, memvars, sidevars, cfg, ident, loc, res,
                   nops, nsig, inst>>

\* the body of the polling loop with shell=False (lines 820-822): p.poll()
\* was None, so the child is running or has ended unreaped since, and
\* local_maxmem = max(local_maxmem, self._memory_usage(p.pid)/1e6)
ExecSample(m) ==
    /\ pc[m] = "exec_poll"
    /\ ~loc[m].shell
    /\ LET v == memory_usage(kids[m][loc[m].kid])
      IN  /\ loc' = [loc EXCEPT ![m].maxmem = Max(@, v)]
          /\ sampled' = [sampled EXCEPT ![m] = Max(@, v)]
    /\ UNCHANGED <<fsvars, pc, status, locks, procs, peak_memory, kids, cfg, ident,
                   res, nops, nsig, inst, sidevars>>

\* ExecReaped where _triage_error fails the pipeline whatever nofail is
ExecReaped_IgnoreNofail(m) ==
    /\ pc[m] = "exec_reaped"
    /\ LET rcode == kids[m][loc[m].kid].rc
          s == [Snap(m) EXCEPT !.procs = @ \ {loc[m].kid},
                               !.peak = Max(@, loc[m].maxmem)]
          gone == [s EXCEPT !.kids = forget_gone(@, s.procs, 0)]
      IN  IF rcode # 0
          THEN Die(m, fail_pipeline(s, FALSE))
          ELSE /\ Commit(m, gone)
               /\ Goto(m, after_callprint(loc[m], rcode).pc)
               /\ loc' = [loc EXCEPT ![m] = after_callprint(loc[m], rcode).l]
               /\ res' = res
    /\ UNCHANGED <<lockFiles, targetExists, ckFiles, cfg, ident, nops, nsig, inst>>

\* ExecReaped where _triage_error never fails the pipeline
ExecReaped_NeverFail(m) ==
    /\ pc[m] = "exec_reaped"
    /\ LET rcode == kids[m][loc[m].kid].rc
          s == [Snap(m) EXCEPT !.procs = @ \ {loc[m].kid},
                               !.peak = Max(@, loc[m].maxmem)]
          gone == [s EXCEPT !.kids = forget_gone(@, s.procs, 0)]
      IN  /\ Commit(m, gone)
          /\ Goto(m, after_callprint(loc[m], rcode).pc)
          /\ loc' = [loc EXCEPT ![m] = after_callprint(loc[m], rcode).l]
          /\ res' = res
    /\ UNCHANGED <<lockFiles, targetExists, ckFiles, cfg, ident, nops, nsig, inst>>

\* lines 836-850: unregister the child, raise on a nonzero code, and
\* _triage_error (1736-1747)
ExecReaped(m) ==
    /\ pc[m] = "exec_reaped"
    /\ LET rcode == kids[m][loc[m].kid].rc
          s == [Snap(m) EXCEPT !.procs = @ \ {loc[m].kid},
                               !.peak = Max(@, loc[m].maxmem)]
          gone == [s EXCEPT !.kids = forget_gone(@, s.procs, 0)]
      IN  IF rcode # 0 /\ ~loc[m].nofail
          THEN Die(m, fail_pipeline(s, FALSE))
          ELSE IF rcode # 0 /\ status[m] = FAIL_FLAG
          THEN Die(m, s)
          ELSE /\ Commit(m, gone)
               /\ Goto(m, after_callprint(loc[m], rcode).pc)
               /\ loc' = [loc EXCEPT ![m] = after_callprint(loc[m], rcode).l]
               /\ res' = res
    /\ UNCHANGED <<lockFiles, targetExists, ckFiles, cfg, ident, nops, nsig, inst>>

\* a run that invokes the follow-up after each command and once more at the
\* end
RunFollow_Twice(m) ==
    /\ pc[m] = "run_follow"
    /\ res' = [res EXCEPT ![m].followed = @ + 2]
    /\ Goto(m, "run_rm")
    /\ UNCHANGED <<fsvars, status, locks, procs, memvars, sidevars, kids,
                   cfg, ident, loc, nops, nsig, inst>>

\* call_follow() (line 685)
RunFollow(m) ==
    /\ pc[m] = "run_follow"
    /\ res' = [res EXCEPT ![m].followed = @ + 1]
    /\ Goto(m, "run_rm")
    /\ UNCHANGED <<fsvars, status, locks, procs, memvars, sidevars, kids, cfg, ident, loc, nops, nsig, inst>>

\* os.remove(lock_file) (line 686); OSError if the file is gone
RunRemoveLock(m) ==
    /\ pc[m] = "run_rm"
    /\ IF loc[m].lock \in lockFiles
       THEN /\ lockFiles' = lockFiles \ {loc[m].lock}
            /\ Goto(m, "run_lrm")
            /\ UNCHANGED <<recoverFiles, flags, status, locks, procs, memvars, sidevars, kids,
                           loc, res>>
       ELSE Die(m, Snap(m)) /\ UNCHANGED lockFiles
    /\ UNCHANGED <<targetExists, ckFiles, cfg, ident, nops, nsig, inst>>

\* self.locks.remove(lock_file) and return process_return_code (687-692)
RunLocksRemove(m) ==
    /\ pc[m] = "run_lrm"
    /\ locks' = [locks EXCEPT ![m] = list_remove(@, loc[m].lock)]
    /\ Return(m, loc[m].rc, res[m])
    /\ UNCHANGED <<fsvars, status, procs, memvars, sidevars, kids, cfg, ident, nops, nsig, inst>>

\* --------------------------------------------------------- set_status_flag
\* entered with ssfArg = the new status and ssfRet = where to go on return
\* os.remove(flag_file_path) inside try / bare except (lines 445-454)
SsfRemove(m) ==
    /\ pc[m] = "ssf_try"
    /\ flags' = [flags EXCEPT ![m] = @ \ {status[m]}]
    /\ Goto(m, "ssf_set")
    /\ UNCHANGED <<lockFiles, recoverFiles, targetExists, ckFiles, status,
                   locks, procs, memvars, sidevars, kids, cfg, ident, loc, res, nops, nsig, inst>>

\* self.status = status (line 458)
SsfSet(m) ==
    /\ pc[m] = "ssf_set"
    /\ status' = [status EXCEPT ![m] = loc[m].ssfArg]
    /\ Goto(m, "ssf_create")
    /\ UNCHANGED <<fsvars, locks, procs, memvars, sidevars, kids, cfg, ident, loc, res, nops, nsig, inst>>

\* self._create_file(self._flag_file_path()) (line 459) and return
SsfCreate(m) ==
    /\ pc[m] = "ssf_create"
    /\ flags' = [flags EXCEPT ![m] = create_file(@, status[m])]
    /\ IF loc[m].ssfRet = "idle"
       THEN Return(m, 0, res[m])
       ELSE Goto(m, loc[m].ssfRet) /\ UNCHANGED <<loc, res>>
    /\ UNCHANGED <<lockFiles, recoverFiles, targetExists, ckFiles, status,
                   locks, procs, memvars, sidevars, kids, cfg, ident, nops, nsig, inst>>

\* ---------------------------------------------------------- _wait_for_lock
\* WaitForLock that leaves the waiting status in place when the lock is gone
WaitForLock_NoRunFlag(m) ==
    /\ pc[m] = "wfl_test"
    /\ IF loc[m].lock \in lockFiles
       THEN /\ ~loc[m].first
            /\ Goto(m, "ssf_try")
            /\ loc' = [loc EXCEPT ![m].first = TRUE, ![m].ssfArg = WAIT_FLAG,
                                  ![m].ssfRet = "wfl_test"]
       ELSE /\ Goto(m, loc[m].wflRet)
            /\ loc' = loc
    /\ UNCHANGED <<fsvars, status, locks, procs, memvars, sidevars, kids, cfg, ident, res, nops, nsig, inst>>

\* while os.path.isfile(lock_file): first time set_status_flag(WAIT_FLAG),
\* then sleep; afterwards set_status_flag(RUN_FLAG) if it waited (899-914).
\* A test that finds the lock again after the first one changes nothing.
WaitForLock(m) ==
    /\ pc[m] = "wfl_test"
    /\ IF loc[m].lock \in lockFiles
       THEN /\ ~loc[m].first
            /\ Goto(m, "ssf_try")
            /\ loc' = [loc EXCEPT ![m].first = TRUE, ![m].ssfArg = WAIT_FLAG,
                                  ![m].ssfRet = "wfl_test"]
       ELSE IF loc[m].first
       THEN /\ Goto(m, "ssf_try")
            /\ loc' = [loc EXCEPT ![m].ssfArg = RUN_FLAG,
                                  ![m].ssfRet = loc[m].wflRet]
       ELSE /\ Goto(m, loc[m].wflRet)
            /\ loc' = loc
    /\ UNCHANGED <<fsvars, status, locks, procs, memvars, sidevars, kids, cfg, ident, res, nops, nsig, inst>>

\* ------------------------------------------------------------------- stats
\* self.name of each pipeline, and the annotations a row can carry
name(m) == IF m = 1 THEN "pipe1" ELSE "pipe2"
SHARED == "shared"
Annotations == {"none", SHARED, "other"}

Keys == {"reads"}
Values == {"7", "8 "}

\* no entry for the key (KeyError)
MISSING == "missing"

\* str.strip() on the values above
strip(v) == IF v = "8 " THEN "8" ELSE v

\* _refresh_stats: read the rows in order, keeping those whose annotation
\* is the pipeline's name or "shared" (lines 1216-1228)
RECURSIVE refresh_stats(_, _, _)
refresh_stats(d, rows, me) ==
    IF rows = <<>> THEN d
    ELSE LET r == Head(rows)
         IN  refresh_stats(IF r.annotation = me \/ r.annotation = SHARED
                           THEN [d EXCEPT ![r.key] = strip(r.value)]
                           ELSE d,
                           Tail(rows), me)

\* report_result(key, value, annotation): keep the value in stats_dict and
\* append the row to the stats file; the locked append of
\* _safe_write_to_file is one step here
ReportStat(m, k, v, a) ==
    /\ pc[m] = "idle"
    /\ nops[m] < (IF m = 1 THEN MaxOps ELSE MaxRuns)
    /\ nops' = [nops EXCEPT ![m] = @ + 1]
    /\ stats_dict' = [stats_dict EXCEPT ![m][k] = strip(v)]
    /\ statsFile' = Append(statsFile,
                           [key |-> k, value |-> strip(v),
                            annotation |-> IF a = "none" THEN name(m) ELSE a])
    /\ Return(m, 0, [NoRes EXCEPT !.op = "report_result"])
    /\ UNCHANGED <<fsvars, status, locks, procs, memvars, kids, cfg, ident, nsig,
                   inst, nap, cleanvars>>

\* get_stat(key): stats_dict[key], and on KeyError _refresh_stats() and
\* stats_dict[key] again, None if it is still missing (lines 1245-1253)
GetStat(m, k) ==
    /\ pc[m] = "idle"
    /\ nops[m] < MaxOps
    /\ nops' = [nops EXCEPT ![m] = @ + 1]
    /\ LET d == IF stats_dict[m][k] # MISSING THEN stats_dict[m]
                ELSE refresh_stats(stats_dict[m], statsFile, name(m))
      IN  /\ stats_dict' = [stats_dict EXCEPT ![m] = d]
          /\ Return(m, 0, [NoRes EXCEPT !.op = "get_stat", !.ckArg = <<k>>,
                                        !.stat = d[k]])
    /\ UNCHANGED <<fsvars, status, locks, procs, memvars, kids, cfg, ident, nsig,
                   inst, nap, statsFile, cleanvars>>

\* ----------------------------------------------------------- sleep intervals
\* Times are in hundredths of a second: .25, .5, 2.5, 5 and 60 seconds and
\* their sums are exact in binary floating point, so the integers below
\* behave as the floats of the program do.
LOCK_SLEEP_START == 50      \* sleeptime = .5   (line 896)
LOCK_SLEEP_STEP == 250      \* sleeptime + 2.5  (line 910)
POLL_SLEEP_START == 25      \* sleeptime = .25  (line 812)
POLL_SLEEP_STEP == 500      \* sleeptime + 5    (line 824)
SLEEP_CAP == 6000           \* min(..., 60)     (lines 824, 910)

Min(a, b) == IF a <= b THEN a ELSE b

\* no sleeping loop in progress
NoNap == [loop |-> "none", sleeptime |-> 0, slept |-> 0, n |-> 0]

\* the next sleeptime without the cap
next_sleeptime_Uncapped(t, step) == t + step

\* sleeptime = min(sleeptime + step, 60)
next_sleeptime(t, step) == Min(t + step, SLEEP_CAP)

\* _wait_for_lock is entered: sleeptime = .5
WaitForLockEnter(m) ==
    /\ nap[m].loop = "none"
    /\ nap' = [nap EXCEPT ![m] = [NoNap EXCEPT !.loop = "lock",
                                               !.sleeptime = LOCK_SLEEP_START]]
    /\ UNCHANGED <<mainvars, statvars, cleanvars>>

\* one pass of its loop, the lock file being there: time.sleep(sleeptime);
\* sleeptime = min(sleeptime + 2.5, 60)
WaitForLockSleep(m) ==
    /\ nap[m].loop = "lock"
    /\ nap[m].n < MaxNaps
    /\ nap' = [nap EXCEPT ![m].slept = nap[m].sleeptime,
                          ![m].n = @ + 1,
                          ![m].sleeptime =
                              next_sleeptime(@, LOCK_SLEEP_STEP)]
    /\ UNCHANGED <<mainvars, statvars, cleanvars>>

\* callprint has spawned its child and waits for it: sleeptime = .25
PollEnter(m) ==
    /\ nap[m].loop = "none"
    /\ nap' = [nap EXCEPT ![m] = [NoNap EXCEPT !.loop = "poll",
                                               !.sleeptime = POLL_SLEEP_START]]
    /\ UNCHANGED <<mainvars, statvars, cleanvars>>

\* one pass of the polling loop, p.poll() being None: time.sleep(sleeptime);
\* sleeptime = min(sleeptime + 5, 60)
PollSleep(m) ==
    /\ nap[m].loop = "poll"
    /\ nap[m].n < MaxNaps
    /\ nap' = [nap EXCEPT ![m].slept = nap[m].sleeptime,
                          ![m].n = @ + 1,
                          ![m].sleeptime =
                              next_sleeptime(@, POLL_SLEEP_STEP)]
    /\ UNCHANGED <<mainvars, statvars, cleanvars>>

\* the lock file is gone, or the child has ended: the loop is left
SleepLeave(m) ==
    /\ nap[m].loop # "none"
    /\ nap' = [nap EXCEPT ![m] = NoNap]
    /\ UNCHANGED <<mainvars, statvars, cleanvars>>

\* ------------------------------------------------------ _safe_write_to_file
\* report_result (lines 1000-1030) enters _safe_write_to_file on the stats file
ReportResult(m) ==
    /\ pc[m] = "idle"
    /\ nops[m] < MaxOps
    /\ nops' = [nops EXCEPT ![m] = @ + 1]
    /\ Goto(m, "sw_test")
    /\ loc' = [loc EXCEPT ![m] = [NoCall EXCEPT !.op = "report",
                                                !.lock = LOCK_S,
                                                !.swRet = "idle"]]
    /\ res' = [res EXCEPT ![m] = [NoRes EXCEPT !.op = "report",
                                               !.state = "running"]]
    /\ UNCHANGED <<fsvars, status, locks, procs, memvars, sidevars, kids, cfg, ident, nsig, inst>>

\* if os.path.isfile(lock_file): self._wait_for_lock(lock_file) (1078-1079)
SafeWriteTest(m) ==
    /\ pc[m] = "sw_test"
    /\ IF loc[m].lock \in lockFiles
       THEN /\ Goto(m, "wfl_test")
            /\ loc' = [loc EXCEPT ![m].first = FALSE, ![m].wflRet = "sw_test"]
            /\ res' = [res EXCEPT ![m].waited = TRUE]
       ELSE /\ Goto(m, "sw_append")
            /\ UNCHANGED <<loc, res>>
    /\ UNCHANGED <<fsvars, status, locks, procs, memvars, sidevars, kids, cfg, ident, nops, nsig, inst>>

\* self.locks.append(lock_file) (line 1082)
SafeWriteAppendLock(m) ==
    /\ pc[m] = "sw_append"
    /\ locks' = [locks EXCEPT ![m] = Append(@, loc[m].lock)]
    /\ Goto(m, "sw_create")
    /\ UNCHANGED <<fsvars, status, procs, memvars, sidevars, kids, cfg, ident, loc, res, nops, nsig, inst>>

\* a _safe_write_to_file that goes on to write without creating the lock file
SafeWriteCreateLock_NoLock(m) ==
    /\ pc[m] = "sw_create"
    /\ Goto(m, "sw_write")
    /\ res' = [res EXCEPT ![m].created = @ + 1]
    /\ UNCHANGED <<fsvars, status, locks, procs, memvars, sidevars, kids,
                   cfg, ident, loc, nops, nsig, inst>>

\* self._create_file_racefree(lock_file), looping again on EEXIST (1083-1087)
SafeWriteCreateLock(m) ==
    /\ pc[m] = "sw_create"
    /\ IF create_file_racefree(lockFiles, loc[m].lock).eexist
       THEN /\ Goto(m, "sw_test")
            /\ UNCHANGED <<lockFiles, res>>
       ELSE /\ lockFiles' = create_file_racefree(lockFiles, loc[m].lock).files
            /\ Goto(m, "sw_write")
            /\ res' = [res EXCEPT ![m].created = @ + 1]
    /\ UNCHANGED <<recoverFiles, targetExists, ckFiles, flags, status, locks,
                   procs, memvars, sidevars, kids, cfg, ident, loc, nops, nsig, inst>>

\* with open(file, "a") as myfile: myfile.write(...) (1090-1091)
SafeWriteWrite(m) ==
    /\ pc[m] = "sw_write"
    /\ Goto(m, "sw_rm")
    /\ UNCHANGED <<fsvars, status, locks, procs, memvars, sidevars, kids, cfg, ident, loc, res, nops, nsig, inst>>

\* os.remove(lock_file) (line 1093)
SafeWriteRemoveLock(m) ==
    /\ pc[m] = "sw_rm"
    /\ IF loc[m].lock \in lockFiles
       THEN /\ lockFiles' = lockFiles \ {loc[m].lock}
            /\ Goto(m, "sw_lrm")
            /\ UNCHANGED <<recoverFiles, flags, status, locks, procs, memvars, sidevars, kids,
                           loc, res>>
       ELSE Die(m, Snap(m)) /\ UNCHANGED lockFiles
    /\ UNCHANGED <<targetExists, ckFiles, cfg, ident, nops, nsig, inst>>

\* self.locks.remove(lock_file) (line 1094) and return; in stop_pipeline the
\* first report_result ("Time") is followed by the second ("Success")
SafeWriteLocksRemove(m) ==
    /\ pc[m] = "sw_lrm"
    /\ locks' = [locks EXCEPT ![m] = list_remove(@, loc[m].lock)]
    /\ IF loc[m].swRet = "rr2"
       THEN /\ Goto(m, "sw_test")
            /\ loc' = [loc EXCEPT ![m].swRet = "idle"]
            /\ res' = res
       ELSE Return(m, 0, res[m])
    /\ UNCHANGED <<fsvars, status, procs, memvars, sidevars, kids, cfg, ident, nops, nsig, inst>>

\* ------------------------------------------------- complete, halt, the end
\* complete() / halt(): stop_pipeline(status) starts with set_status_flag
StopPipeline(m, st) ==
    /\ pc[m] = "idle"
    /\ nops[m] < MaxOps
    /\ nops' = [nops EXCEPT ![m] = @ + 1]
    /\ Goto(m, "ssf_try")
    /\ loc' = [loc EXCEPT ![m] =
                 [NoCall EXCEPT !.op = IF st = COMPLETE_FLAG THEN "complete"
                                       ELSE "halt",
                                !.ssfArg = st, !.ssfRet = "stop_cleanup"]]
    /\ res' = [res EXCEPT ![m] =
                 [NoRes EXCEPT !.op = IF st = COMPLETE_FLAG THEN "complete"
                                      ELSE "halt",
                               !.state = "running",
                               !.prevNz = res[m].prevNz]]
    /\ UNCHANGED <<fsvars, status, locks, procs, memvars, sidevars, kids, cfg, ident, nsig, inst>>

\* self._cleanup() and the start of report_result("Time", ...) (1414-1415)
StopCleanup(m) ==
    /\ pc[m] = "stop_cleanup"
    /\ Goto(m, "sw_test")
    /\ loc' = [loc EXCEPT ![m].lock = LOCK_S, ![m].swRet = "rr2"]
    /\ LET s == cleanup(Snap(m), FALSE)
      IN  /\ interFiles' = s.files
          /\ clog' = [clog EXCEPT ![m] = s.clog]
          /\ cleanup_list' = [cleanup_list EXCEPT ![m] = s.cl]
          /\ cleanup_list_conditional' =
                 [cleanup_list_conditional EXCEPT ![m] = s.clc]
    /\ UNCHANGED <<fsvars, status, locks, procs, memvars, nap, statvars, kids,
                   cfg, ident, res, nops, nsig, inst>>

\* clean_add(regex, conditional) with manual=False (lines 1591-1600)
CleanAdd(m, regex, conditional) ==
    /\ pc[m] = "idle"
    /\ Len(cleanup_list[m]) + Len(cleanup_list_conditional[m]) < MaxClean
    /\ IF conditional
       THEN /\ cleanup_list_conditional' =
                  [cleanup_list_conditional EXCEPT ![m] = Append(@, regex)]
            /\ UNCHANGED cleanup_list
       ELSE /\ cleanup_list' = [cleanup_list EXCEPT ![m] = Append(@, regex)]
            /\ cleanup_list_conditional' =
                  [cleanup_list_conditional EXCEPT ![m] =
                      SelectSeq(@, LAMBDA x : x # regex)]
    /\ UNCHANGED <<mainvars, nap, statvars, interFiles, clog>>

\* a command of pipeline m has written an intermediate file, before the
\* pipeline stops
WriteInterFile(m, f) ==
    /\ pc[m] = "idle" /\ nops[m] = 0
    /\ f \notin interFiles
    /\ interFiles' = interFiles \cup {f}
    /\ UNCHANGED <<mainvars, nap, statvars, cleanup_list,
                   cleanup_list_conditional, clog>>

\* set_status_flag(st) of a sibling pipeline, from its first to its last
\* statement (lines 437-461).  The other pipelines read its flag files in
\* _cleanup only, so it is enough to let it act between their calls.
SiblingSetsStatus(m, st) ==
    /\ pc[m] = "idle"
    /\ \A o \in Mgr \ {m} : pc[o] = "idle"
    /\ status[m] # st
    /\ flags' = [flags EXCEPT ![m] = set_status_flag_done(Snap(m), st).flags]
    /\ status' = [status EXCEPT ![m] = st]
    /\ UNCHANGED <<lockFiles, recoverFiles, targetExists, ckFiles, pc, locks,
                   procs, memvars, sidevars, kids, cfg, ident, loc, res, nops, nsig,
                   inst>>

\* touch_checkpoint that reports whether it created the file
TouchCheckpoint_ReturnsCreated(m, f) ==
    /\ pc[m] = "idle"
    /\ nops[m] < MaxOps
    /\ nops' = [nops EXCEPT ![m] = @ + 1]
    /\ ckFiles' = create_file(ckFiles, f)
    /\ Return(m, IF f \in ckFiles THEN 0 ELSE 1,
              [NoRes EXCEPT !.op = "touch", !.ckWrote = TRUE, !.ckFile = f,
                            !.ckArg = <<f>>])
    /\ UNCHANGED <<lockFiles, recoverFiles, targetExists, flags, status,
                   locks, procs, memvars, sidevars, kids, cfg, ident, nsig, inst>>

\* touch_checkpoint(check_file) with a file name relative to the outfolder
TouchCheckpoint(m, f) ==
    /\ pc[m] = "idle"
    /\ nops[m] < MaxOps
    /\ nops' = [nops EXCEPT ![m] = @ + 1]
    /\ ckFiles' = create_file(ckFiles, f)
    /\ Return(m, IF f \in ckFiles THEN 1 ELSE 0,
              [NoRes EXCEPT !.op = "touch", !.ckWrote = TRUE, !.ckFile = f,
                            !.ckArg = <<f>>])
    /\ UNCHANGED <<lockFiles, recoverFiles, targetExists, flags, status,
                   locks, procs, memvars, sidevars, kids, cfg, ident, nsig, inst>>

\* ---- paths: a path is the sequence of its separators and names
SEP == "/"
PathTok == {SEP, "out", "sub", CK_RAW}

\* the strings of at most MaxPath tokens in which no two names are adjacent
Paths == UNION {{p \in [1..n -> PathTok] :
                    \A i \in 1..(n - 1) : p[i] = SEP \/ p[i + 1] = SEP}
                : n \in 1..MaxPath}

\* os.path.isabs
isabs(p) == Len(p) > 0 /\ p[1] = SEP

\* the absolute paths that name a file: they do not end with a separator
AbsPaths == {p \in Paths : isabs(p) /\ p[Len(p)] # SEP}

\* head.rstrip('/')
RECURSIVE rstrip_sep(_)
rstrip_sep(h) ==
    IF h # <<>> /\ h[Len(h)] = SEP THEN rstrip_sep(SubSeq(h, 1, Len(h) - 1))
    ELSE h

\* os.path.split: cut after the last separator, and strip the separators
\* that end the head unless the head is made of separators only
path_split(p) ==
    LET seps == {j \in 1..Len(p) : p[j] = SEP}
        i == IF seps = {} THEN 0
             ELSE CHOOSE j \in seps : \A k \in seps : k <= j
        head == SubSeq(p, 1, i)
    IN  [head |-> IF \E j \in 1..i : head[j] # SEP THEN rstrip_sep(head)
                  ELSE head,
         tail |-> SubSeq(p, i + 1, Len(p))]

\* os.path.join(a, ""): a with one separator at its end, "" staying ""
join_empty(a) ==
    IF a = <<>> \/ a[Len(a)] = SEP THEN a ELSE Append(a, SEP)

\* the outfolder the manager was built with, and self.outfolder (line 152)
OUT_ARG == <<SEP, "out">>
outfolder == join_empty(OUT_ARG)

\* a constructor that does not keep the name it is given
PipelineManager_NoName(n, d) ==
    [name |-> "PipelineManager", outfolder |-> join_empty(d),
     args |-> [name |-> n, outfolder |-> d]]

\* __init__(name, outfolder): self.name = name (line 108) and
\* self.outfolder = os.path.join(outfolder, '') (line 152)
PipelineManager(n, d) ==
    [name |-> n, outfolder |-> join_empty(d),
     args |-> [name |-> n, outfolder |-> d]]

\* outside_outfolder that lets every path through
outside_outfolder_Never(p) == FALSE

\* the test of lines 1329-1335: the absolute path's folder is not outfolder
outside_outfolder(p) ==
    join_empty(path_split(p).head) # join_empty(outfolder)

\* touch_checkpoint(check_file) with an absolute path: ValueError unless
\* its folder is the outfolder, and otherwise the file is touched
TouchCheckpointAbs(m, p) ==
    /\ pc[m] = "idle"
    /\ nops[m] < MaxOps
    /\ nops' = [nops EXCEPT ![m] = @ + 1]
    /\ isabs(p)
    /\ IF outside_outfolder(p)
       THEN /\ ckFiles' = ckFiles
            /\ pc' = [pc EXCEPT ![m] = "returned"]
            /\ loc' = [loc EXCEPT ![m] = NoCall]
            /\ res' = [res EXCEPT ![m] =
                         [NoRes EXCEPT !.op = "touch", !.state = "raised",
                                       !.path = "ValueError", !.ckArg = p]]
       ELSE LET f == path_split(p).tail[1]
            IN  /\ ckFiles' = create_file(ckFiles, f)
                /\ Return(m, IF f \in ckFiles THEN 1 ELSE 0,
                          [NoRes EXCEPT !.op = "touch", !.ckWrote = TRUE,
                                        !.ckFile = f, !.ckArg = p])
    /\ UNCHANGED <<lockFiles, recoverFiles, targetExists, flags, status,
                   locks, procs, memvars, sidevars, kids, cfg, ident, nsig, inst>>

\* the arguments of checkpoint: a stage name, a function, or a Stage with
\* its checkpoint attribute; only a Stage has the attribute
StageArgs == {s \in [kind : {"name", "function", "stage"},
                     checkpoint : BOOLEAN] :
                 s.kind # "stage" => s.checkpoint}

\* checkpoint_filepath(stage, pm): <stage-slug>.checkpoint in the outfolder
checkpoint_filepath == CK_SLUG

\* checkpoint(stage) for a stage whose name is not an absolute path
Checkpoint(m, s) ==
    /\ pc[m] = "idle"
    /\ nops[m] < MaxOps
    /\ nops' = [nops EXCEPT ![m] = @ + 1]
    /\ LET f == checkpoint_filepath
          r == [NoRes EXCEPT !.op = "checkpoint", !.ckFile = f,
                             !.ckArg = <<s.kind, IF s.checkpoint
                                                 THEN "checkpoint"
                                                 ELSE "plain">>]
      IN  IF s.kind = "stage" /\ ~s.checkpoint
          THEN \* "Not a checkpoint": return False
               /\ ckFiles' = ckFiles
               /\ Return(m, 0, r)
          ELSE \* return self.touch_checkpoint(check_fpath)
               /\ ckFiles' = create_file(ckFiles, f)
               /\ Return(m, IF f \in ckFiles THEN 1 ELSE 0,
                         [r EXCEPT !.ckWrote = TRUE])
    /\ UNCHANGED <<lockFiles, recoverFiles, targetExists, flags, status,
                   locks, procs, memvars, sidevars, kids, cfg, ident, nsig, inst>>

\* the script ends; the interpreter runs _exit_handler
Exit(m) ==
    /\ pc[m] = "idle"
    /\ Commit(m, exit_handler(Snap(m)))
    /\ Goto(m, "exited")
    /\ res' = [res EXCEPT ![m] = NoRes]
    /\ UNCHANGED <<lockFiles, targetExists, ckFiles, cfg, ident, loc, nops, nsig, inst>>

\* the operating system reclaims the exited process: its memory (status,
\* locks, procs, settings) is gone, its files and its running children stay
GONE == "gone"

Reclaim(m) ==
    /\ pc[m] = "exited"
    /\ Goto(m, "dead")
    /\ status' = [status EXCEPT ![m] = GONE]
    /\ locks' = [locks EXCEPT ![m] = <<>>]
    /\ procs' = [procs EXCEPT ![m] = {}]
    /\ kids' = [kids EXCEPT ![m] = SelectSeq(@, LAMBDA k : k.st = "run")]
    /\ cfg' = [cfg EXCEPT ![m] = DefaultConfig]
    /\ ident' = ident
    /\ res' = [res EXCEPT ![m] = NoRes]
    /\ peak_memory' = [peak_memory EXCEPT ![m] = 0]
    /\ sampled' = [sampled EXCEPT ![m] = 0]
    /\ UNCHANGED <<fsvars, loc, nops, nsig, inst, sidevars>>

\* positions inside the try of callprint (lines 798-848), whose handler
\* catches OSError and passes it to _triage_error
InCallprintTry(p) == p \in {"exec_poll", "exec_reaped"}

\* SIGINT / SIGTERM: _generic_signal_handler calls
\* fail_pipeline(KeyboardInterrupt, dynamic_recover=True), which raises in
\* the interrupted code.  Inside the try of set_status_flag the bare except
\* swallows the exception; inside the try of callprint an OSError is
\* triaged; everywhere else the script dies.
Signal(m) ==
    /\ pc[m] \notin {"exited", "dead"}
    /\ nsig < MaxSignals
    /\ nsig' = nsig + 1
    /\ UNCHANGED <<lockFiles, targetExists, ckFiles, cfg, ident, nops, inst>>
    /\ IF pc[m] = "ssf_try"
       THEN \E removed \in BOOLEAN :
              LET s0 == IF removed
                        THEN [Snap(m) EXCEPT !.flags = @ \ {status[m]}]
                        ELSE Snap(m)
              IN  /\ Commit(m, fail_pipeline(s0, TRUE))
                  /\ Goto(m, "ssf_set")
                  /\ UNCHANGED <<loc, res>>
       ELSE LET s1 == fail_pipeline(Snap(m), TRUE)
                rcode == IF pc[m] = "exec_reaped"
                         THEN kids[m][loc[m].kid].rc ELSE -1
            IN  IF InCallprintTry(pc[m]) /\ s1.err = "OSError"
                THEN IF ~loc[m].nofail
                     THEN Die(m, fail_pipeline([s1 EXCEPT !.err = "none"],
                                               FALSE))
                     ELSE IF s1.status = FAIL_FLAG
                     THEN Die(m, s1)
                     ELSE /\ Commit(m, s1)
                          /\ Goto(m, after_callprint(loc[m], rcode).pc)
                          /\ loc' = [loc EXCEPT ![m] =
                                       after_callprint(loc[m], rcode).l]
                          /\ res' = res
                ELSE Die(m, s1)

\* the pipeline is started again as a new process: __init__ up to
\* start_pipeline's set_status_flag(RUN_FLAG); clear_flags removes the flag
\* files a previous run of this pipeline left
Restart(m, c) ==
    /\ pc[m] = "dead"
    /\ inst < MaxRestarts
    /\ inst' = inst + 1
    /\ cfg' = [cfg EXCEPT ![m] = c]
    /\ ident' = [ident EXCEPT ![m] =
                   PipelineManager(@.args.name, @.args.outfolder)]
    /\ status' = [status EXCEPT ![m] = INITIALIZING]
    /\ flags' = [flags EXCEPT ![m] = {}]
    /\ locks' = [locks EXCEPT ![m] = <<>>]
    /\ procs' = [procs EXCEPT ![m] = {}]
    /\ nops' = [nops EXCEPT ![m] = 0]
    /\ nsig' = nsig
    /\ Goto(m, "ssf_try")
    /\ loc' = [loc EXCEPT ![m] = [NoCall EXCEPT !.op = "start",
                                                !.ssfArg = RUN_FLAG,
                                                !.ssfRet = "idle"]]
    /\ res' = [res EXCEPT ![m] = [NoRes EXCEPT !.op = "start",
                                               !.state = "running"]]
    /\ UNCHANGED <<lockFiles, recoverFiles, targetExists, ckFiles, kids,
                   memvars, sidevars>>

\* ------------------------------------------------------------ the system
RunSteps(m, codes) ==
    \/ RunTestTarget(m)
    \/ RunTestLock(m)
    \/ RunLockExists(m)
    \/ RunRecoverExists(m)
    \/ RunRemoveRecover(m)
    \/ RunAppendLock(m)
    \/ RunCreateLock(m)
    \/ ExecSpawn(m)
    \/ \E k \in DOMAIN kids[m] : ChildExit(m, k, codes)
    \/ ExecPoll(m)
    \/ ExecReaped(m)
    \/ RunFollow(m)
    \/ RunRemoveLock(m)
    \/ RunLocksRemove(m)

StatusSteps(m) ==
    \/ SsfRemove(m)
    \/ SsfSet(m)
    \/ SsfCreate(m)
    \/ WaitForLock(m)

SafeWriteSteps(m) ==
    \/ SafeWriteTest(m)
    \/ SafeWriteAppendLock(m)
    \/ SafeWriteCreateLock(m)
    \/ SafeWriteWrite(m)
    \/ SafeWriteRemoveLock(m)
    \/ SafeWriteLocksRemove(m)

\* after construction with the arguments A[m]: every manager has run
\* start_pipeline
InitBuilt(C, L, R, T, A) ==
    /\ ident \in {[m \in Mgr |-> PipelineManager(a[m].name, a[m].outfolder)]
                  : a \in A}
    /\ lockFiles \in L
    /\ recoverFiles \in R
    /\ targetExists \in T
    /\ ckFiles = {}
    /\ flags = [m \in Mgr |-> {RUN_FLAG}]
    /\ pc = [m \in Mgr |-> "idle"]
    /\ status = [m \in Mgr |-> RUN_FLAG]
    /\ locks = [m \in Mgr |-> <<>>]
    /\ procs = [m \in Mgr |-> {}]
    /\ kids = [m \in Mgr |-> <<>>]
    /\ cfg \in [Mgr -> C]
    /\ loc = [m \in Mgr |-> NoCall]
    /\ res = [m \in Mgr |-> NoRes]
    /\ nops = [m \in Mgr |-> 0]
    /\ nsig = 0
    /\ inst = 0
    /\ peak_memory = [m \in Mgr |-> 0]
    /\ sampled = [m \in Mgr |-> 0]
    /\ nap = [m \in Mgr |-> NoNap]
    /\ statsFile = <<>>
    /\ cleanup_list = [m \in Mgr |-> <<>>]
    /\ cleanup_list_conditional = [m \in Mgr |-> <<>>]
    /\ interFiles = {}
    /\ clog = [m \in Mgr |-> NoClog]
    /\ stats_dict = [m \in Mgr |-> [k \in Keys |-> MISSING]]

\* ... with the pipeline names and the output folder of name and OUT_ARG
InitWith(C, L, R, T) ==
    InitBuilt(C, L, R, T,
              {[m \in Mgr |-> [name |-> name(m), outfolder |-> OUT_ARG]]})

\* The lock protocol: managers that are not in recover mode run commands
\* for the target t, are signalled, die and are started again.
LockParams == {p \in RunParams : p.target /\ ~p.lock_name /\ ~p.nofail
                                 /\ p.ck = "none" /\ ~p.owck /\ p.ncmd = 0
                                 /\ p.shell}

Init == InitWith({DefaultConfig}, {{}}, {{}}, {FALSE})

\* the script of m has a call left to make
MayCall(m) == nops[m] < MaxRuns

Next ==
    \E m \in Mgr :
        \/ \E p \in LockParams : MayCall(m) /\ RunCall(m, p)
        \/ RunSteps(m, {0, 1})
        \/ StatusSteps(m)
        \/ Resume(m)
        \/ Exit(m)
        \/ Signal(m)
        \/ Reclaim(m)
        \/ Restart(m, DefaultConfig)

Spec == Init /\ [][Next]_vars

\* Lock contention alone: the managers run commands for the target t and are
\* signalled; none is started again.
NextWait ==
    \E m \in Mgr :
        \/ \E p \in LockParams : MayCall(m) /\ RunCall(m, p)
        \/ RunSteps(m, {0, 1})
        \/ StatusSteps(m)
        \/ Resume(m)
        \/ Signal(m)

SpecWait == Init /\ [][NextWait]_vars

\* The lock protocol where a pipeline may be started again with recover=True.
RecoverConfig == [DefaultConfig EXCEPT !.overwrite_locks = TRUE]

NextRecover ==
    \E m \in Mgr :
        \/ \E p \in LockParams : MayCall(m) /\ RunCall(m, p)
        \/ RunSteps(m, {0, 1})
        \/ StatusSteps(m)
        \/ Resume(m)
        \/ Exit(m)
        \/ Signal(m)
        \/ Reclaim(m)
        \/ \E c \in {DefaultConfig, RecoverConfig} : Restart(m, c)

SpecRecover == Init /\ [][NextRecover]_vars

\* One manager alone in an output folder that earlier runs may have left a
\* target, a lock file and a recovery file in: every setting of the manager
\* and every form of a run call with a single command.
InitSeq ==
    /\ InitWith(Configs, SUBSET {LOCK_T}, SUBSET {LOCK_T}, BOOLEAN)
    /\ \A m \in Mgr \ {1} : cfg[m] = DefaultConfig
    /\ recoverFiles \subseteq lockFiles

SeqParams == {p \in RunParams : p.ncmd = 0 /\ p.shell}

NextSeq ==
    \/ \E p \in SeqParams : RunCall(1, p)
    \/ RunSteps(1, {0, 1})
    \/ StatusSteps(1)
    \/ \E f \in {CK_RAW, CK_SLUG} : TouchCheckpoint(1, f)
    \/ Resume(1)
    \/ Exit(1)
    \/ Signal(1)

SpecSeq == InitSeq /\ [][NextSeq]_vars

\* One manager that marks checkpoints: by file name, by absolute path and
\* by stage.
InitCk == InitWith({DefaultConfig}, {{}}, {{}}, {FALSE})

NextCk ==
    \/ \E f \in {CK_RAW, CK_SLUG} : TouchCheckpoint(1, f)
    \/ \E p \in AbsPaths : TouchCheckpointAbs(1, p)
    \/ \E s \in StageArgs : Checkpoint(1, s)
    \/ Resume(1)
    \/ Exit(1)

SpecCk == InitCk /\ [][NextCk]_vars

\* A pipeline that registers intermediate files for cleanup and then
\* completes, halts or fails, next to a sibling pipeline of the same output
\* folder whose status changes.
NextClean ==
    \/ \E r \in Patterns, c \in BOOLEAN : CleanAdd(1, r, c)
    \/ \E f \in InterFiles : WriteInterFile(1, f)
    \/ \E st \in {RUN_FLAG, WAIT_FLAG, COMPLETE_FLAG, PAUSE_FLAG, FAIL_FLAG} :
          SiblingSetsStatus(2, st)
    \/ \E st \in {COMPLETE_FLAG, PAUSE_FLAG} : StopPipeline(1, st)
    \/ SsfRemove(1)
    \/ SsfSet(1)
    \/ SsfCreate(1)
    \/ StopCleanup(1)
    \/ SafeWriteSteps(1)
    \/ Resume(1)
    \/ Exit(1)
    \/ Signal(1)

SpecClean == InitCk /\ [][NextClean]_vars

\* Two pipelines of one output folder that report results; the first one
\* reads them too.
NextStats ==
    \/ \E m \in Mgr, k \in Keys, v \in Values, a \in Annotations :
          ReportStat(m, k, v, a)
    \/ \E k \in Keys : GetStat(1, k)
    \/ \E m \in Mgr : Resume(m)

SpecStats == InitCk /\ [][NextStats]_vars

\* The two sleeping loops, each manager in one of them at a time.
NextSleep ==
    \E m \in Mgr :
        \/ WaitForLockEnter(m)
        \/ WaitForLockSleep(m)
        \/ PollEnter(m)
        \/ PollSleep(m)
        \/ SleepLeave(m)

SpecSleep == InitCk /\ [][NextSleep]_vars

\* One manager alone, waiting for its children or not, that runs commands
\* (one, or a list of them) and stops (complete, halt), in an output folder
\* that an earlier run may have left a lock file and a recovery file in.
FireConfig == [DefaultConfig EXCEPT !.wait = FALSE]

InitFire ==
    /\ InitWith({DefaultConfig, FireConfig}, SUBSET {LOCK_T},
                SUBSET {LOCK_T}, {FALSE})
    /\ \A m \in Mgr \ {1} : cfg[m] = DefaultConfig
    /\ recoverFiles \subseteq lockFiles

FireParams == {p \in RunParams : p.target /\ ~p.lock_name
                                 /\ p.ck = "none" /\ ~p.owck /\ p.shell}

NextFire ==
    \/ \E p \in FireParams : RunCall(1, p)
    \/ RunSteps(1, RetCodes)
    \/ StatusSteps(1)
    \/ \E st \in {COMPLETE_FLAG, PAUSE_FLAG} : StopPipeline(1, st)
    \/ StopCleanup(1)
    \/ SafeWriteSteps(1)
    \/ Resume(1)
    \/ Exit(1)
    \/ Signal(1)

SpecFire == InitFire /\ [][NextFire]_vars

\* One manager whose runs take a shell or a direct command, a single one or
\* a list, with or without nofail, waiting for its children or not, while
\* the children's memory grows and the polling loop samples it.
MemParams == {p \in RunParams : p.target /\ ~p.lock_name
                                /\ p.ck = "none" /\ ~p.owck}

NextMem ==
    \/ \E p \in MemParams : RunCall(1, p)
    \/ RunSteps(1, {0, 1})
    \/ \E k \in DOMAIN kids[1] : ChildGrows(1, k)
    \/ ExecSample(1)
    \/ StatusSteps(1)
    \/ Resume(1)
    \/ Exit(1)
    \/ Signal(1)

SpecMem == InitFire /\ [][NextMem]_vars

\* Managers that report results and stop (complete, halt) while they share
\* the stats file, and are signalled.
NextStop ==
    \E m \in Mgr :
        \/ MayCall(m) /\ ReportResult(m)
        \/ \E st \in {COMPLETE_FLAG, PAUSE_FLAG} :
              MayCall(m) /\ StopPipeline(m, st)
        \/ StopCleanup(m)
        \/ SafeWriteSteps(m)
        \/ StatusSteps(m)
        \/ Resume(m)
        \/ Exit(m)
        \/ Signal(m)

SpecStop == Init /\ [][NextStop]_vars

\* Managers, none in recover mode, that call run for the target t whose lock
\* file and recovery file an interrupted run left behind, and are signalled.
InitTakeover == InitWith({DefaultConfig}, {{LOCK_T}}, {{LOCK_T}}, {FALSE})

SpecTakeover == InitTakeover /\ [][NextWait]_vars

\* ------------------------------------------------------------ properties
RunHoldPcs == {"exec_spawn", "exec_poll", "exec_reaped", "run_follow", "run_rm"}
SafeWriteHoldPcs == {"sw_write", "sw_rm"}
SsfPcs == {"ssf_try", "ssf_set", "ssf_create"}

\* m has created lock file l and has not yet removed it
Holding(m, l) ==
    /\ loc[m].lock = l
    /\ pc[m] \in RunHoldPcs \cup SafeWriteHoldPcs

\* ... and created it with _create_file_racefree
ExclCreated(m, l) ==
    /\ Holding(m, l)
    /\ ~(loc[m].op = "run" /\ (cfg[m].overwrite_locks \/ loc[m].recover_mode))

\* C1: with no manager in recover mode, at most one manager at a time has
\* exclusive-created a lock file and not yet removed it, and while it has,
\* no other manager owns that lock.
C1_MutualExclusion ==
    \A l \in {LOCK_T, LOCK_S} : \A m1, m2 \in Mgr :
        (m1 # m2 /\ ExclCreated(m1, l)) => ~Holding(m2, l)

\* C2 as stated: after a run with a target that executed and returned 0,
\* the next run call with that target (no lock file, no checkpoint) spawns
\* no child and returns 0 through the target-exists path.
C2_SecondRunNeverExecutes ==
    \A m \in Mgr :
        (res[m].op = "run" /\ res[m].prevOk /\ res[m].target
           /\ ~res[m].preLock /\ ~res[m].preSkip)
        => /\ res[m].spawned = 0
           /\ res[m].state = "returned"
                => (res[m].ret = 0 /\ res[m].path = "skip_target")

\* C2 amended: ... and the target is on disk when the second call is made.
C2_SecondRunSkipsExistingTarget ==
    \A m \in Mgr :
        (res[m].op = "run" /\ res[m].prevOk /\ res[m].preTarget
           /\ ~res[m].preLock /\ ~res[m].preSkip)
        => /\ res[m].spawned = 0
           /\ res[m].created = 0
           /\ res[m].state = "returned"
                => (res[m].ret = 0 /\ res[m].path = "skip_target")

C2_Witness ==
    \E m \in Mgr :
        /\ pc[m] = "returned" /\ res[m].op = "run" /\ res[m].prevOk
        /\ res[m].preTarget /\ ~res[m].preLock /\ ~res[m].preSkip
        /\ res[m].path = "skip_target"

\* what a target-exists skip does: no child, no lock file, returns 0, one
\* follow-up call if force_follow is set and none otherwise
SkipOutcome(m) ==
    /\ res[m].spawned = 0
    /\ res[m].created = 0
    /\ res[m].state = "returned"
         => /\ res[m].ret = 0
            /\ res[m].followed = IF cfg[m].force_follow THEN 1 ELSE 0

C5_LockHygiene ==
    \A m \in Mgr :
        (pc[m] = "returned" /\ res[m].op = "complete") => locks[m] = <<>>

\* C6: outside set_status_flag, exactly one status flag file of the
\* pipeline is on disk.
C6_OneFlagFile ==
    \A m \in Mgr : pc[m] \notin SsfPcs => Cardinality(flags[m]) = 1

\* C7: every change of a manager's status field is a permitted transition.
PermittedTransitions ==
    {<<INITIALIZING, RUN_FLAG>>, <<RUN_FLAG, WAIT_FLAG>>,
     <<WAIT_FLAG, RUN_FLAG>>, <<RUN_FLAG, PAUSE_FLAG>>,
     <<RUN_FLAG, COMPLETE_FLAG>>, <<RUN_FLAG, FAIL_FLAG>>,
     <<WAIT_FLAG, FAIL_FLAG>>, <<PAUSE_FLAG, RUN_FLAG>>,
     <<PAUSE_FLAG, COMPLETE_FLAG>>, <<PAUSE_FLAG, FAIL_FLAG>>}

C7_PermittedTransitions ==
    [][\A m \in Mgr :
          (status'[m] # status[m] /\ status[m] # GONE /\ status'[m] # GONE)
          => <<status[m], status'[m]>> \in PermittedTransitions]_vars

\* C8: when a manager has exited, or complete() / halt() has returned, every
\* child it spawned has ended or was sent SIGTERM, and procs is empty.
C8_ChildrenCleanedUp ==
    \A m \in Mgr :
        (pc[m] = "exited"
           \/ (pc[m] = "returned" /\ res[m].op \in {"complete", "halt"}))
        => /\ procs[m] = {}
           /\ \A k \in DOMAIN kids[m] :
                 kids[m][k].st # "run" \/ kids[m][k].term

\* C9: a manager that is not in recover mode and finds no recovery file
\* (a) has status waiting while it waits for the lock, (b) starts to
\* execute only by creating a lock file that did not exist, and (c) when
\* it finds the target after the wait returns 0 without a child, with
\* status running again.
C9_WaitingStatus ==
    \A m \in Mgr :
        (loc[m].op = "run" /\ pc[m] = "wfl_test" /\ loc[m].first)
        => status[m] = WAIT_FLAG

C9_SkipAfterWait ==
    \A m \in Mgr :
        (pc[m] = "returned" /\ res[m].op = "run" /\ res[m].waited
           /\ res[m].path = "skip_target")
        => (res[m].ret = 0 /\ res[m].spawned = 0 /\ status[m] = RUN_FLAG)

C9_NoExecWhileLocked ==
    \A m \in Mgr :
        (pc[m] = "run_create" /\ pc'[m] = "exec_spawn"
           /\ ~loc[m].recover_mode /\ ~cfg[m].overwrite_locks)
        => loc[m].lock \notin lockFiles

\* C9: the three parts together, in every state and at every step.
C9_LockContention ==
    /\ [](C9_WaitingStatus /\ C9_SkipAfterWait)
    /\ [][C9_NoExecWhileLocked]_vars

C9_Witness ==
    \E a, b \in Mgr :
        /\ a # b
        /\ pc[b] = "returned" /\ res[b].op = "run" /\ res[b].waited
        /\ res[b].path = "skip_target" /\ status[b] = RUN_FLAG
        /\ pc[a] = "returned" /\ res[a].path = "exec"

\* C10: when a run call that found both the lock file and the recovery file
\* of its target has started to execute, the recovery file is gone.
C10_RecoveryFileConsumed ==
    \A m \in Mgr :
        (res[m].op = "run" /\ res[m].preLock /\ res[m].preRecover
           /\ pc[m] \in RunHoldPcs)
        => loc[m].lock \notin recoverFiles

\* the step delivers SIGINT / SIGTERM to manager m
Signalled(m) == nsig' # nsig /\ pc'[m] # pc[m]

\* C11: a run call that consumes a recovery file re-creates the lock file
\* only once the recovery file is removed, and a signal that reaches the
\* consuming manager while it holds that lock leaves a recovery file for it.
C11_RecoveryRewritten ==
    [][\A m \in Mgr :
          /\ (pc[m] = "run_create" /\ pc'[m] = "exec_spawn"
                /\ loc[m].recover_mode)
             => loc[m].lock \notin recoverFiles
          /\ (Signalled(m) /\ loc[m].recover_mode /\ pc[m] \in RunHoldPcs)
             => loc[m].lock \in recoverFiles']_vars

\* m has consumed a recovery file and is taking, or holds, the lock
TookOver(m) ==
    /\ loc[m].recover_mode
    /\ pc[m] \in {"run_append", "run_create"} \cup RunHoldPcs

\* C12: a manager goes on from os.remove(recover_file) to take the lock over
\* only if that very step removes the recovery file, so that no second
\* manager can consume the same file, and no two managers are takers-over
\* of the lock at the same time.
C12_OneTakeover ==
    /\ [](\A a, b \in Mgr : a # b => ~(TookOver(a) /\ TookOver(b)))
    /\ [][\A m \in Mgr :
             (pc[m] = "run_rmrec" /\ pc'[m] = "run_append")
             => /\ loc[m].lock \in recoverFiles
                /\ loc[m].lock \notin recoverFiles']_vars

C12_Witness ==
    \E a, b \in Mgr :
        /\ a # b
        /\ TookOver(a) /\ pc[a] = "exec_poll"
        /\ res[b].op = "run" /\ res[b].preRecover /\ res[b].waited
        /\ pc[b] = "wfl_test"

\* m has seen the single command of a nofail run end with a nonzero code
\* while the pipeline is running, and no signal arrives in this step
NofailExit(m) ==
    /\ pc[m] = "exec_reaped"
    /\ loc[m].nofail /\ loc[m].ncmd = 0
    /\ kids[m][loc[m].kid].rc # 0
    /\ status[m] = RUN_FLAG
    /\ ~Signalled(m)

\* C13: when the single command of a nofail run exits nonzero, the call
\* goes on with that code, keeps it through the follow-up and the release
\* of the lock and returns it, and the status and the flag files do not
\* change on the way; when it has returned the lock is released and nothing
\* is left registered, a later run that executes does so in the normal way,
\* and a later complete() returns with status completed.
C13_NofailContinues ==
    /\ [][\A m \in Mgr :
             /\ NofailExit(m)
                => /\ pc'[m] = "run_follow"
                   /\ loc'[m].rc = kids[m][loc[m].kid].rc
                   /\ status'[m] = RUN_FLAG /\ flags'[m] = flags[m]
             /\ (pc[m] \in {"run_follow", "run_rm"}
                   /\ pc'[m] \in {"run_rm", "run_lrm"})
                => /\ loc'[m].rc = loc[m].rc
                   /\ status'[m] = status[m] /\ flags'[m] = flags[m]
             /\ (pc[m] = "run_lrm" /\ pc'[m] = "returned")
                => /\ res'[m].ret = loc[m].rc
                   /\ status'[m] = status[m] /\ flags'[m] = flags[m]]_vars
    /\ [](\A m \in Mgr :
             /\ (pc[m] = "returned" /\ res[m].op = "run"
                   /\ res[m].path = "exec" /\ res[m].ret # 0)
                => /\ LOCK_T \notin lockFiles
                   /\ locks[m] = <<>>
                   /\ procs[m] = {}
             /\ (pc[m] = "returned" /\ res[m].op = "run" /\ res[m].prevNz
                   /\ res[m].path = "exec")
                => (res[m].created = 1 /\ res[m].spawned >= 1)
             /\ (pc[m] = "returned" /\ res[m].op = "complete"
                   /\ res[m].prevNz)
                => status[m] = COMPLETE_FLAG)

C13_Witness ==
    \E m \in Mgr :
        /\ pc[m] = "returned" /\ res[m].op = "complete" /\ res[m].prevNz
        /\ status[m] = COMPLETE_FLAG /\ flags[m] = {COMPLETE_FLAG}

\* C14: a run call returns a nonzero value only if it was made with
\* nofail=true; when a manager sees a child end with a nonzero code in a
\* call without nofail, or with the pipeline already failed, the call does
\* not return: the process ends with status failed and the failed flag on
\* disk.
C14_NonzeroReturnOnlyNofail ==
    [][\A m \in Mgr :
          /\ (pc[m] # "returned" /\ pc'[m] = "returned"
                /\ res'[m].op = "run" /\ res'[m].ret # 0)
             => loc[m].nofail
          /\ (pc[m] = "exec_reaped" /\ kids[m][loc[m].kid].rc # 0
                /\ (~loc[m].nofail \/ status[m] = FAIL_FLAG)
                /\ ~Signalled(m))
             => /\ pc'[m] = "exited"
                /\ status'[m] = FAIL_FLAG
                /\ FAIL_FLAG \in flags'[m]]_vars

C14_Witness ==
    \E m \in Mgr :
        /\ pc[m] = "exited" /\ status[m] = FAIL_FLAG /\ flags[m] = {FAIL_FLAG}
        /\ procs[m] = {}
        /\ \E k \in DOMAIN kids[m] :
              kids[m][k].st = "reaped" /\ kids[m][k].rc # 0

\* C15: a run call with neither target nor lock_name ends the process with
\* the error raised and status failed (failed flag on disk); it spawns no
\* child, creates no lock file, and does not return through the checkpoint
\* short-circuit even when a checkpoint file of the call exists.
C15_NoNamesFails ==
    /\ [](\A m \in Mgr :
             (res[m].op = "run" /\ ~res[m].valid)
             => /\ pc[m] = "exited"
                /\ res[m].state = "raised" /\ res[m].path = "argerr"
                /\ status[m] = FAIL_FLAG /\ FAIL_FLAG \in flags[m]
                /\ res[m].spawned = 0 /\ res[m].created = 0)
    /\ [][\A m \in Mgr :
             (pc[m] = "idle" /\ res'[m].op = "run" /\ ~res'[m].valid)
             => /\ lockFiles' = lockFiles
                /\ ckFiles' = ckFiles
                /\ Len(kids'[m]) <= Len(kids[m])]_vars

C15_Witness ==
    \E m \in Mgr :
        /\ res[m].op = "run" /\ ~res[m].valid /\ res[m].preSkip
        /\ pc[m] = "exited" /\ status[m] = FAIL_FLAG
        /\ flags[m] = {FAIL_FLAG}

\* after the step every lock that was in locks of m has its recovery file
\* and locks of m is empty
LocksRecovered(m) ==
    /\ \A i \in 1..Len(locks[m]) : locks[m][i] \in recoverFiles'
    /\ locks'[m] = <<>>

\* the step runs the fail_pipeline of the signal handler to its end
SignalFailEnds(m) ==
    Signalled(m) /\ fail_pipeline(Snap(m), TRUE).err = "e"

\* the step runs fail_pipeline to its end (the status becomes failed) for a
\* process error, an argument error or the atexit fallback
PlainFailEnds(m) ==
    ~Signalled(m) /\ status[m] # FAIL_FLAG /\ status'[m] = FAIL_FLAG

\* C16 as stated: at the end of every fail_pipeline, whatever it runs for,
\* every lock that was in locks has a recovery file and locks is empty.
C16_RecoveryForEveryCause ==
    [][\A m \in Mgr :
          (SignalFailEnds(m) \/ PlainFailEnds(m)) => LocksRecovered(m)]_vars

\* C16 amended: that holds at the end of the fail_pipeline of a signal;
\* the fail_pipeline of a process error, an argument error or the atexit
\* fallback writes no recovery file and leaves locks as it was.
C16_RecoveryOnSignalOnly ==
    [][\A m \in Mgr :
          /\ SignalFailEnds(m) => LocksRecovered(m)
          /\ PlainFailEnds(m)
             => /\ recoverFiles' = recoverFiles
                /\ locks'[m] = locks[m]]_vars

C16_Witness ==
    \E m \in Mgr :
        /\ pc[m] = "exited" /\ status[m] = FAIL_FLAG
        /\ cfg[m].wait /\ ~cfg[m].overwrite_locks
        /\ \E k \in DOMAIN kids[m] : kids[m][k].term
        /\ LOCK_T \in lockFiles /\ LOCK_T \in recoverFiles
        /\ locks[m] = <<>>

\* C17: a step taken while the status is completed, paused or failed never
\* makes the status failed anew and then leaves the flag files as they are.
C17_TerminalStatusKept ==
    [][\A m \in Mgr :
          (has_exit_status(status[m]) /\ status'[m] = FAIL_FLAG)
          => (status[m] = FAIL_FLAG /\ flags'[m] = flags[m])]_vars

\* C18: a signal delivered to a manager whose status is running or waiting
\* ends the process, with every registered child sent SIGTERM and procs
\* empty, a recovery file for every lock in locks, status failed and the
\* failed flag the flag on disk.
C18_SignalEndState ==
    [][\A m \in Mgr :
          (Signalled(m) /\ status[m] \in {RUN_FLAG, WAIT_FLAG})
          => /\ pc'[m] = "exited"
             /\ procs'[m] = {}
             /\ \A k \in procs[m] :
                   k \in DOMAIN kids'[m]
                   => (kids'[m][k].term \/ kids'[m][k].st # "run")
             /\ \A i \in 1..Len(locks[m]) : locks[m][i] \in recoverFiles'
             /\ status'[m] = FAIL_FLAG
             /\ flags'[m] = {FAIL_FLAG}]_vars

\* C19: once a process has exited its status is completed, paused or failed,
\* and so is every status flag file of its pipeline on disk, of which there
\* is at least one.
C19_ExitedIsTerminal ==
    \A m \in Mgr :
        pc[m] = "exited"
        => /\ has_exit_status(status[m])
           /\ flags[m] # {}
           /\ \A f \in flags[m] : has_exit_status(f)

\* C20: once complete() has returned, the status is completed and the
\* completed flag file is on disk.
C20_CompletedAfterComplete ==
    \A m \in Mgr :
        (pc[m] = "returned" /\ res[m].op = "complete")
        => (status[m] = COMPLETE_FLAG /\ COMPLETE_FLAG \in flags[m])

\* ------------------------------------------------------------ peak memory
\* between two calls of the script, or once the process has exited
AtRest(m) == pc[m] \in {"idle", "returned", "exited"}

\* peak_memory never decreases while the manager object lives
PeakNeverDecreases ==
    [][\A m \in Mgr :
          pc'[m] # "dead" => peak_memory'[m] >= peak_memory[m]]_vars

\* C21: after each operation peak_memory is at least what it was before and
\* equals the largest memory sample the manager has taken of its children,
\* in a polling loop or at a termination.
C21_PeakIsMaxSampled ==
    [][\A m \in Mgr :
          (AtRest(m)' /\ pc'[m] # "dead")
          => /\ peak_memory'[m] >= peak_memory[m]
             /\ peak_memory'[m] = sampled'[m]]_vars

\* ------------------------------------------------------------ checkpoints
\* C22: a run called with overwrite_checkpoint=True while a checkpoint file
\* of its stage exists, and that executes its command successfully, has
\* written (touched) a checkpoint file by the time it returns.
C22_OverwriteTouchesCheckpoint ==
    [][\A m \in Mgr :
          (/\ pc'[m] = "returned" /\ pc[m] # "returned"
           /\ res'[m].op = "run" /\ res'[m].preOw
           /\ res'[m].path = "exec" /\ res'[m].ret = 0)
          => res'[m].ckWrote]_vars

\* a call of touch_checkpoint or checkpoint by m returns in this step
CkReturns(m) ==
    /\ pc[m] = "idle" /\ pc'[m] = "returned"
    /\ res'[m].op \in {"touch", "checkpoint"}
    /\ res'[m].state = "returned"

\* the call was checkpoint(stage) for a Stage that is not a checkpoint
NotACheckpoint(m) ==
    res'[m].op = "checkpoint" /\ res'[m].ckArg = <<"stage", "plain">>

DirectlyInOutfolder(p) ==
    \E k \in 1..Len(p) :
        /\ Len(p) = Len(OUT_ARG) + k + 1
        /\ SubSeq(p, 1, Len(OUT_ARG)) = OUT_ARG
        /\ \A i \in (Len(OUT_ARG) + 1)..(Len(OUT_ARG) + k) : p[i] = SEP
        /\ p[Len(p)] # SEP

\* C24: touch_checkpoint with an absolute path is rejected with ValueError
\* iff the path is not a file name directly in the output folder; a rejected
\* call creates no file and changes nothing in the manager, an accepted one
\* leaves the file existing.
C24_AbsolutePathChecked ==
    [][\A m \in Mgr :
          (/\ pc[m] = "idle" /\ pc'[m] = "returned"
           /\ res'[m].op = "touch" /\ isabs(res'[m].ckArg))
          => LET p == res'[m].ckArg
                 rejected == /\ res'[m].state = "raised"
                             /\ res'[m].path = "ValueError"
             IN  /\ rejected <=> ~DirectlyInOutfolder(p)
                 /\ rejected
                    => /\ ckFiles' = ckFiles /\ flags' = flags
                       /\ lockFiles' = lockFiles
                       /\ status'[m] = status[m] /\ locks'[m] = locks[m]
                       /\ procs'[m] = procs[m] /\ cfg'[m] = cfg[m]
                       /\ peak_memory'[m] = peak_memory[m]
                 /\ ~rejected
                    => /\ res'[m].state = "returned"
                       /\ p[Len(p)] \in ckFiles']_vars

\* a path in a subfolder of the outfolder was rejected
C24_Witness ==
    /\ pc[1] = "returned" /\ res[1].state = "raised"
    /\ res[1].ckArg = <<SEP, "out", SEP, "sub", SEP, CK_RAW>>

\* a path directly in the outfolder was accepted
C24_Accepted ==
    /\ pc[1] = "returned" /\ res[1].state = "returned"
    /\ res[1].ckArg = <<SEP, "out", SEP, CK_RAW>>
    /\ CK_RAW \in ckFiles

\* ---------------------------------------------------------- sleep intervals
\* C25: after n passes the sleeptime of _wait_for_lock is .5 + 2.5 n seconds
\* and that of the child-polling loop .25 + 5 n seconds, each held at 60
\* seconds once it would exceed them; no sleep is longer than 60 seconds.
C25_SleepBackoff ==
    \A m \in Mgr :
        /\ nap[m].loop = "lock"
           => nap[m].sleeptime = Min(50 + 250 * nap[m].n, 6000)
        /\ nap[m].loop = "poll"
           => nap[m].sleeptime = Min(25 + 500 * nap[m].n, 6000)
        /\ nap[m].slept <= 6000
        /\ nap[m].n > 0 /\ nap[m].loop = "lock"
           => nap[m].slept = Min(50 + 250 * (nap[m].n - 1), 6000)
        /\ nap[m].n > 0 /\ nap[m].loop = "poll"
           => nap[m].slept = Min(25 + 500 * (nap[m].n - 1), 6000)

\* both loops have slept the full 60 seconds
C25_Witness ==
    /\ nap[1].loop = "lock" /\ nap[1].slept = 6000 /\ nap[1].n > 25
    /\ nap[2].loop = "poll" /\ nap[2].slept = 6000 /\ nap[2].n > 13

\* ------------------------------------------------------------------- stats
\* the values of the rows of the stats file for key k that are annotated
\* with the name of pipeline m or with "shared"
visible_values(rows, m, k) ==
    {rows[i].value : i \in {j \in 1..Len(rows) :
                                /\ rows[j].key = k
                                /\ rows[j].annotation \in {name(m), SHARED}}}

\* C26: get_stat(key) returns the value of a row reported for key with this
\* pipeline's name or "shared" as annotation, and nothing when there is no
\* such row: rows with another annotation have no influence.
C26_GetStatVisibleRowsOnly ==
    [][\A m \in Mgr :
          (pc[m] = "idle" /\ pc'[m] = "returned" /\ res'[m].op = "get_stat")
          => LET seen == visible_values(statsFile, m, res'[m].ckArg[1])
             IN  IF seen = {} THEN res'[m].stat = MISSING
                 ELSE res'[m].stat \in seen]_vars

\* ----------------------------------------------------------------- cleanup
\* this step runs the failure path of m as far as its _cleanup(dry_run=True):
\* a signal handler, or the atexit handler of a run that has not ended
FailurePathCleans(m) ==
    \/ /\ Signalled(m)
       /\ fail_pipeline(Snap(m), TRUE).err = "e"
    \/ /\ nsig' = nsig /\ pc[m] = "idle" /\ pc'[m] = "exited"
       /\ ~has_exit_status(status[m])
       /\ fail_pipeline(Snap(m), FALSE).err = "e"

\* C27: the dry-run cleanup of the failure path deletes nothing: it moves
\* the patterns of the unconditional list to the end of the conditional
\* list, leaves the unconditional list empty, and every intermediate file
\* is still there.
C27_DryRunKeepsFiles ==
    [][\A m \in Mgr :
          FailurePathCleans(m)
          => /\ cleanup_list'[m] = <<>>
             /\ cleanup_list_conditional'[m] =
                   cleanup_list_conditional[m] \o cleanup_list[m]
             /\ interFiles' = interFiles]_vars

\* a failed run whose dry run moved a pattern that matches a file
C27_Witness ==
    /\ pc[1] = "exited" /\ status[1] = FAIL_FLAG
    /\ clog[1].moved > 0 /\ clog[1].gone = {}
    /\ cleanup_list[1] = <<>>
    /\ glob_all(cleanup_list_conditional[1], interFiles) # {}

\* this step is the _cleanup() of stop_pipeline
CleansUp(m) ==
    pc[m] = "stop_cleanup" /\ pc'[m] = "sw_test"

\* the flag files of the output folder that are neither completed flags nor
\* the running flag of pipeline m, as pairs of pipeline and status
OtherFlagFiles(m) ==
    {x \in Mgr \X {RUN_FLAG, WAIT_FLAG, PAUSE_FLAG, FAIL_FLAG, COMPLETE_FLAG} :
        /\ x[2] \in flags[x[1]]
        /\ x[2] # COMPLETE_FLAG
        /\ x # <<m, RUN_FLAG>>}

\* C28 as stated: a cleanup that is not a dry run deletes every file the
\* conditional list matches if the folder holds no other flag file, and
\* none of them if it holds one.
C28_ConditionalIffNoOtherFlag ==
    [][\A m \in Mgr :
          CleansUp(m)
          => LET cond == glob_all(cleanup_list_conditional[m], interFiles)
             IN  IF OtherFlagFiles(m) = {}
                 THEN cond \cap interFiles' = {}
                 ELSE cond \subseteq interFiles']_vars

\* C28 amended: the same for the files that the conditional list matches
\* and the unconditional list does not; what the unconditional list
\* matches is deleted whatever flag files there are.
C28_ConditionalOnlyIffNoOtherFlag ==
    [][\A m \in Mgr :
          CleansUp(m)
          => LET cond == glob_all(cleanup_list_conditional[m], interFiles)
                 unc == glob_all(cleanup_list[m], interFiles)
             IN  /\ unc \cap interFiles' = {}
                 /\ IF OtherFlagFiles(m) = {}
                    THEN cond \cap interFiles' = {}
                    ELSE (cond \ unc) \subseteq interFiles'
                 /\ interFiles \ (cond \cup unc) \subseteq interFiles']_vars

\* a completed pipeline with conditional patterns only has deleted a file
C28_Witness ==
    /\ status[1] = COMPLETE_FLAG /\ pc[1] # "stop_cleanup"
    /\ cleanup_list[1] = <<>> /\ cleanup_list_conditional[1] # <<>>
    /\ clog[1].gone # {}

\* a sibling's flag made a cleanup leave the conditional files in place
C28_LeftInPlace ==
    /\ pc[1] = "sw_test" /\ loc[1].swRet = "rr2"
    /\ status[2] = RUN_FLAG
    /\ glob_all(cleanup_list_conditional[1], interFiles) # {}

\* the memory sampler fails for a child registered in procs of m
SamplerFails(m) == \E k \in procs[m] : memory_usage_raises(kids[m][k])

\* the snapshot s with the status file of every registered child readable
sample_succeeds(s) ==
    [s EXCEPT !.kids = [k \in DOMAIN s.kids |->
                          IF k \in s.procs /\ memory_usage_raises(s.kids[k])
                          THEN [s.kids[k] EXCEPT !.st = "zombie"]
                          ELSE s.kids[k]]]

\* C29: a signal whose failure path meets a failing memory sample leaves
\* the status, the flag files, procs, locks and the recovery files as the
\* same failure path leaves them when the sample succeeds, and ends the
\* process as that one does.
C29_SamplerFailureSwallowed ==
    [][\A m \in Mgr :
          LET e == fail_pipeline(sample_succeeds(Snap(m)), TRUE)
          IN  (Signalled(m) /\ SamplerFails(m) /\ e.err = "e")
              => /\ pc'[m] = "exited"
                 /\ status'[m] = e.status
                 /\ flags'[m] = e.flags
                 /\ procs'[m] = e.procs
                 /\ locks'[m] = e.locks
                 /\ recoverFiles' = e.rec]_vars

\* -------------------------------------------------------- the report sinks
\* the append-only files a manager writes rows to
Sinks == {"stats", "commands", "profile"}

\* pipeline_filepath: the stats file lacks the pipeline name, the commands
\* and the profile file carry it (lines 155-165)
pipeline_filepath(m, k) ==
    CASE k = "stats" -> "stats.tsv"
      [] k = "commands" -> name(m) \o "_commands.sh"
      [] k = "profile" -> name(m) \o "_profile.tsv"

\* make_lock_name(target, outfolder) for a file in the output folder
make_lock_name(f) == "lock." \o f

\* m is at the statement that appends a row to its sink k: the write of
\* _safe_write_to_file (1090-1091), the _report_command of callprint (773),
\* the _report_profile of callprint (839)
Appending(m, k) ==
    CASE k = "stats" -> pc[m] = "sw_write" /\ loc[m].lock = LOCK_S
      [] k = "commands" -> pc[m] = "exec_spawn"
      [] k = "profile" -> pc[m] = "exec_reaped"

\* the step executes that statement
Appends(m, k) ==
    /\ Appending(m, k)
    /\ nsig' = nsig
    /\ pc'[m] # pc[m]

\* m owns the lock of file f: the lock file is on disk and m has it in locks
HoldsLockOf(m, f) ==
    /\ make_lock_name(f) \in lockFiles
    /\ \E i \in 1..Len(locks[m]) : locks[m][i] = make_lock_name(f)

\* no two managers are at an append to the same file
NoTwoAppending ==
    \A m1, m2 \in Mgr : \A k1, k2 \in Sinks :
        (m1 # m2 /\ Appending(m1, k1) /\ Appending(m2, k2))
        => pipeline_filepath(m1, k1) # pipeline_filepath(m2, k2)

\* Managers that run a command for the target t and report results to the
\* stats file they share.
NextSink ==
    \E m \in Mgr :
        \/ \E p \in LockParams : MayCall(m) /\ RunCall(m, p)
        \/ RunSteps(m, {0})
        \/ MayCall(m) /\ ReportResult(m)
        \/ SafeWriteSteps(m)
        \/ StatusSteps(m)
        \/ Resume(m)
        \/ Exit(m)
        \/ Signal(m)

SpecSink == Init /\ [][NextSink]_vars

\* C30 as stated: every append to a sink (stats, commands, profile) is made
\* while the appending manager holds the lock of that file, and no two
\* managers are at an append to the same sink file.
C30_EveryAppendUnderLock ==
    [][/\ \A m \in Mgr : \A k \in Sinks :
             Appends(m, k) => HoldsLockOf(m, pipeline_filepath(m, k))
       /\ NoTwoAppending]_vars

\* C30 amended: every append to the stats file is made while the appending
\* manager holds lock.stats.tsv; the appends to the commands and the profile
\* file, which carry the pipeline's name, are made with no lock of those
\* files on disk; no two managers are at an append to the same sink file.
C30_SharedSinkUnderLock ==
    [][/\ \A m \in Mgr :
             /\ Appends(m, "stats")
                => HoldsLockOf(m, pipeline_filepath(m, "stats"))
             /\ \A k \in {"commands", "profile"} :
                   Appends(m, k)
                   => make_lock_name(pipeline_filepath(m, k)) \notin lockFiles
       /\ NoTwoAppending]_vars

\* a manager has written its row to the stats file under the lock while the
\* other waits for that lock, and a manager has written a profile row
C30_Witness ==
    \E m1, m2 \in Mgr :
        /\ m1 # m2
        /\ pc[m1] = "sw_rm" /\ loc[m1].lock = LOCK_S
        /\ HoldsLockOf(m1, pipeline_filepath(m1, "stats"))
        /\ res[m2].op = "report" /\ res[m2].waited

C30_ProfileRow ==
    \E m \in Mgr : res[m].op = "run" /\ pc[m] = "run_follow"
                   /\ res[m].spawned = 1

\* C31: after the failure path the cleanup script holds a line for every
\* existing file that a pattern of either cleanup list matches.
C31_ScriptListsItems ==
    [][\A m \in Mgr :
          FailurePathCleans(m)
          => \A f \in glob_all(cleanup_list[m] \o cleanup_list_conditional[m],
                               interFiles) :
                <<"rm", f>> \in clog'[m].script]_vars

\* ---------------------------------------------------------- the constructor
\* the pipeline names and the outfolder arguments managers are built with
Names == {"pipe1", "DummyPipe"}
OutArgs == {OUT_ARG, <<SEP, "out", SEP>>, <<"out">>, <<SEP>>}

\* Manager 1, built with any of these names and output folders in a folder
\* that an interrupted run left a lock and its recovery file in, makes every
\* kind of call, fails, and is started again.
InitCtor ==
    InitBuilt({DefaultConfig}, {{LOCK_T}}, {{LOCK_T}}, {FALSE},
              {[m \in Mgr |-> IF m = 1 THEN [name |-> n, outfolder |-> d]
                             ELSE [name |-> name(m), outfolder |-> d]]
               : n \in Names, d \in OutArgs})

NextCtor ==
    \/ \E p \in LockParams : MayCall(1) /\ RunCall(1, p)
    \/ RunSteps(1, {0, 1})
    \/ \E s \in StageArgs : MayCall(1) /\ Checkpoint(1, s)
    \/ \E c \in BOOLEAN : MayCall(1) /\ CleanAdd(1, P_ALL, c)
    \/ MayCall(1) /\ ReportResult(1)
    \/ SafeWriteSteps(1)
    \/ \E st \in {COMPLETE_FLAG, PAUSE_FLAG} : MayCall(1) /\ StopPipeline(1, st)
    \/ StopCleanup(1)
    \/ StatusSteps(1)
    \/ Resume(1)
    \/ Exit(1)
    \/ Reclaim(1)
    \/ Restart(1, DefaultConfig)

SpecCtor == InitCtor /\ [][NextCtor]_vars

\* the paths a and b denote the same directory: they are equal up to the
\* separators at their end
same_dir(a, b) ==
    \/ a = b
    \/ /\ rstrip_sep(a) = rstrip_sep(b)
       /\ rstrip_sep(a) # <<>>

\* C32: a manager has the name it was constructed with and an outfolder that
\* denotes the directory it was constructed with, and no step changes its
\* name or its outfolder.
C32_NameAndOutfolderKept ==
    [][\A m \in Mgr :
          /\ ident'[m].name = ident'[m].args.name
          /\ same_dir(ident'[m].outfolder, ident'[m].args.outfolder)
          /\ ident'[m].name = ident[m].name
          /\ ident'[m].outfolder = ident[m].outfolder]_vars

\* a manager built with an outfolder argument that has no separator at its
\* end has made calls, has stopped and has been started again
C32_Witness ==
    /\ inst = 1 /\ pc[1] = "exited"
    /\ ident[1].outfolder # ident[1].args.outfolder
    /\ ident[1].name = "DummyPipe"

\* ------------------------------------------------- the order of a run call
\* m holds the lock of its run call: the file is on disk and is in locks
LockHeld(m) ==
    /\ loc[m].lock \in lockFiles
    /\ InList(locks[m], loc[m].lock)

\* the events of an executing run call of m lie in their order: the lock is
\* held from before the child is spawned until after the follow-up, a child
\* executes only while its call supervises it, and the follow-up comes
\* after the child's exit was seen and the child unregistered
RunInOrder(m) ==
    /\ pc[m] \in RunHoldPcs => LockHeld(m)
    /\ \A k \in DOMAIN kids[m] :
          (kids[m][k].st = "run" /\ ~kids[m][k].term)
          => (pc[m] = "exec_poll" /\ loc[m].kid = k)
    /\ pc[m] \in {"run_follow", "run_rm"}
       => (procs[m] = {} /\ \A k \in DOMAIN kids[m] : kids[m][k].st = "reaped")
    /\ pc[m] \in {"idle", "returned"} => ~InList(locks[m], LOCK_T)

\* C33, for the managers that wait for their children: in every state the
\* events of the manager's run call lie in that order.
C33_RunInOrder ==
    \A m \in Mgr : cfg[m].wait => RunInOrder(m)

\* C34: in a run call with nofail made with a list of commands, once an
\* element has ended with a nonzero exit code the code the call carries is
\* nonzero, it stays so for the rest of the list, and it is the value the
\* call returns.
C34_ListReturnsNonzero ==
    [][\A m \in Mgr :
          /\ (pc[m] = "exec_reaped" /\ loc[m].ncmd > 0 /\ loc[m].nofail
                /\ kids[m][loc[m].kid].rc # 0
                /\ pc'[m] \in {"exec_spawn", "run_follow"})
             => loc'[m].rc # 0
          /\ (loc[m].ncmd > 0 /\ loc[m].rc # 0
                /\ pc[m] \in {"exec_spawn", "exec_poll", "exec_reaped"}
                /\ pc'[m] \in {"exec_spawn", "exec_poll", "exec_reaped",
                               "run_follow"})
             => loc'[m].rc # 0
          /\ (pc[m] = "run_lrm" /\ pc'[m] = "returned"
                /\ res'[m].path = "exec")
             => res'[m].ret = loc[m].rc]_vars

\* the positions between the two halves of a lock acquisition or release
LockStepPcs == {"run_create", "run_lrm", "sw_create", "sw_lrm"}

\* C35: outside the acquire and release steps, and while the process lives,
\* every entry of locks is a lock file on disk that this manager created and
\* has not yet removed, and no entry is there twice.
C35_LocksMirrorOwnLockFiles ==
    \A m \in Mgr :
        pc[m] \notin LockStepPcs \cup {"exited", "dead"}
        => /\ \A i \in 1..Len(locks[m]) :
                 /\ locks[m][i] \in lockFiles
                 /\ Holding(m, locks[m][i])
           /\ \A i, j \in 1..Len(locks[m]) :
                 locks[m][i] = locks[m][j] => i = j

\* C36: set_status_flag removes the old flag file, then sets the status,
\* then creates the new flag file; and whenever no set_status_flag of a
\* living manager is in progress, the flag file named by its status field is
\* on disk and is its only flag file.
C36_FlagAgreesWithStatus ==
    /\ [][\A m \in Mgr :
             /\ (pc[m] = "ssf_try" /\ pc'[m] = "ssf_set" /\ nsig' = nsig)
                => (status[m] \notin flags'[m] /\ status'[m] = status[m])
             /\ (pc[m] = "ssf_set" /\ pc'[m] = "ssf_create")
                => (status'[m] = loc[m].ssfArg /\ flags'[m] = flags[m])
             /\ (pc[m] = "ssf_create" /\ pc'[m] # pc[m] /\ nsig' = nsig)
                => (status'[m] = status[m] /\ status[m] \in flags'[m])]_vars
    /\ [](\A m \in Mgr :
             pc[m] \notin SsfPcs \cup {"dead"} => flags[m] = {status[m]})

\* ------------------------------------------------------------ the follow-up
\* this step of m invokes the follow-up callback
Follows(m) == res'[m].followed > res[m].followed

\* ... on the target-exists skip of a manager with force_follow
ForcedFollow(m) ==
    /\ pc[m] = "run_t2" /\ cfg[m].force_follow
    /\ targetExists /\ loc[m].lock \notin lockFiles
    /\ res[m].spawned = 0

\* ... after callprint has returned for every command of the call
FollowsCommand(m) ==
    /\ pc[m] = "run_follow"
    /\ res[m].spawned = IF loc[m].ncmd = 0 THEN 1 ELSE loc[m].ncmd

C37_ForcedSkip ==
    \E m \in Mgr :
        /\ pc[m] = "returned" /\ res[m].path = "skip_target"
        /\ res[m].followed = 1 /\ res[m].spawned = 0

\* ------------------------------------------------------ concurrent children
\* m supervises a live child of a run call made under the lock l
Executing(m, l) ==
    /\ pc[m] = "exec_poll" /\ loc[m].lock = l
    /\ kids[m][loc[m].kid].st = "run" /\ ~kids[m][loc[m].kid].term

\* C38: no two managers, none of them in recover mode, supervise at the same
\* time live children of run calls for the same lock.
C38_OneChildPerLock ==
    \A a, b \in Mgr :
        (a # b /\ ~cfg[a].overwrite_locks /\ ~cfg[b].overwrite_locks)
        => ~(Executing(a, LOCK_T) /\ Executing(b, LOCK_T))

\* ------------------------------------------------------ recovery files
\* C39: when a step makes a recovery file come to exist for a lock, the
\* manager that takes the step created the lock file and holds it, and no
\* other living manager holds that lock.
C39_RecoveryOnlyForOwnLock ==
    [][\A l \in {LOCK_T, LOCK_S} :
          (l \notin recoverFiles /\ l \in recoverFiles')
          => \E m \in Mgr :
                /\ Signalled(m)
                /\ Holding(m, l) /\ l \in lockFiles
                /\ \A o \in Mgr \ {m} : ~Holding(o, l)]_vars

\* ------------------------------------------------------------- termination
\* the steps a manager takes by itself once a call is under way: the run and
\* _safe_write_to_file loops with their lock waits, the child finishing, the
\* status flag being set, the call returning to the script
Progress(m) ==
    \/ RunSteps(m, {0})
    \/ SafeWriteSteps(m)
    \/ StatusSteps(m)
    \/ Resume(m)

\* Fair scheduling: a manager whose next step stays possible takes it. Calls
\* being made, signals and the end of the script are left to the environment.
SpecLive == Init /\ [][NextSink]_vars /\ \A m \in Mgr : WF_vars(Progress(m))

\* m is inside a run, report_result or report_figure call
InCall(m) == pc[m] \notin {"idle", "returned", "exited", "dead"}

\* C40: under fair scheduling every call of every manager eventually returns
\* (or the manager is stopped by a signal): no manager waits forever on a lock.
C40_EveryCallReturns == \A m \in Mgr : InCall(m) ~> ~InCall(m)

====
